---- MODULE Spec2Model ----
(***************************************************************************)
(* Model of the config resolution and composition engine of mozey/config   *)
(* (package cmdconfig): path resolver, loader, codecs and the              *)
(* single / extend / merge composition of key-value stores.                *)
(*                                                                         *)
(* A Go string is modelled as a finite sequence of tokens of Alphabet.     *)
(* The alphabet is prefix-free and listed in ascending byte order, so the  *)
(* lexicographic order of token sequences is the byte order of the strings *)
(* they spell (the order sort.Strings uses).                               *)
(***************************************************************************)
EXTENDS Integers, Sequences, FiniteSets, TLC

VARIABLES dirs, fs, call, ret

vars == <<dirs, fs, call, ret>>

(* ------------------------------------------------------------------ *)
(* Strings                                                            *)
(* ------------------------------------------------------------------ *)

Alphabet ==
  << "\n", " ", "\"", "#", "*", ",", "-", ".", "/", ":", "=",
     "APP_", "BAR", "BAZ", "DIR", "FOO", "FilePath", "X", "_DIR",
     "config", "dev", "env", "ext1", "ext2", "fn", "go", "json", "null",
     "prod", "sample", "sh", "template", "tmp", "v1", "v2", "yaml", "{", "}" >>

Rank(t) == CHOOSE i \in 1..Len(Alphabet) : Alphabet[i] = t

\* s < t in byte order
RECURSIVE strLess(_, _)
strLess(s, t) ==
  IF t = <<>> THEN FALSE
  ELSE IF s = <<>> THEN TRUE
  ELSE IF s[1] = t[1] THEN strLess(Tail(s), Tail(t))
  ELSE Rank(s[1]) < Rank(t[1])

\* unicode.IsSpace restricted to the alphabet
IsSpace(t) == t \in {"\n", " "}

\* [_a-zA-Z0-9]
IsWord(t) ==
  t \in {"APP_", "BAR", "BAZ", "DIR", "FOO", "FilePath", "X", "_DIR", "config",
         "dev", "env", "ext1", "ext2", "fn", "go", "json", "null", "prod",
         "sample", "sh", "template", "tmp", "v1", "v2", "yaml"}

HasPrefix(s, p) == Len(p) <= Len(s) /\ SubSeq(s, 1, Len(p)) = p

HasSuffix(s, p) ==
  Len(p) <= Len(s) /\ SubSeq(s, Len(s) - Len(p) + 1, Len(s)) = p

\* the least index of a set of indexes, 0 when the set is empty
FirstOf(hits) ==
  IF hits = {} THEN 0 ELSE CHOOSE i \in hits : \A j \in hits : i <= j

\* the greatest index of a set of indexes, 0 when the set is empty
LastOf(hits) ==
  IF hits = {} THEN 0 ELSE CHOOSE i \in hits : \A j \in hits : j <= i

\* strings.Index, 1-based; 0 when sub does not occur
Index(s, sub) ==
  FirstOf({i \in 1..(Len(s) - Len(sub) + 1) :
             SubSeq(s, i, i + Len(sub) - 1) = sub})

Contains(s, sub) == Index(s, sub) # 0

\* strings.Replace(s, old, new, 1)
Replace1(s, old, new) ==
  IF ~Contains(s, old) THEN s
  ELSE SubSeq(s, 1, Index(s, old) - 1) \o new
       \o SubSeq(s, Index(s, old) + Len(old), Len(s))

\* the part of s between the first and the last index of keep
Between(s, keep) ==
  IF keep = {} THEN <<>> ELSE SubSeq(s, FirstOf(keep), LastOf(keep))

TrimSpace(s) == Between(s, {i \in 1..Len(s) : ~IsSpace(s[i])})

TrimPrefix(s, p) == IF HasPrefix(s, p) THEN SubSeq(s, Len(p) + 1, Len(s)) ELSE s

TrimSuffix(s, p) == IF HasSuffix(s, p) THEN SubSeq(s, 1, Len(s) - Len(p)) ELSE s

(* ------------------------------------------------------------------ *)
(* path/filepath (separator "/")                                      *)
(* ------------------------------------------------------------------ *)

Separator == <<"/">>

\* index of the last "/" of p, 0 if none
LastSlash(p) == LastOf({i \in 1..Len(p) : p[i] = "/"})

\* the path elements between separators
RECURSIVE Elems(_)
Elems(p) ==
  IF LastSlash(p) = 0 THEN <<p>>
  ELSE Append(Elems(SubSeq(p, 1, LastSlash(p) - 1)),
              SubSeq(p, LastSlash(p) + 1, Len(p)))

RECURSIVE JoinElems(_)
JoinElems(es) ==
  IF es = <<>> THEN <<>>
  ELSE IF Len(es) = 1 THEN es[1]
  ELSE es[1] \o Separator \o JoinElems(Tail(es))

\* filepath.Clean, given the cleaned elements joined: a rooted path keeps
\* its leading separator, an empty relative path becomes "."
Rooted(p, body) ==
  IF Len(p) > 0 /\ p[1] = "/" THEN Separator \o body
  ELSE IF body = <<>> THEN <<".">>
  ELSE body

\* filepath.Clean for paths without ".." elements
Clean(p) ==
  Rooted(p, JoinElems(SelectSeq(Elems(p), LAMBDA e : e # <<>> /\ e # <<".">>)))

\* filepath.Join(a, b)
Join(a, b) ==
  IF a = <<>> /\ b = <<>> THEN <<>>
  ELSE IF a = <<>> THEN Clean(b)
  ELSE IF b = <<>> THEN Clean(a)
  ELSE Clean(a \o Separator \o b)

\* filepath.Dir
Dir(p) == Clean(SubSeq(p, 1, LastSlash(p)))

\* filepath.Ext: the suffix starting at the last dot of the last element
Ext(p) ==
  IF \A i \in (LastSlash(p) + 1)..Len(p) : p[i] # "." THEN <<>>
  ELSE SubSeq(p, LastOf({i \in (LastSlash(p) + 1)..Len(p) : p[i] = "."}),
              Len(p))

(* ------------------------------------------------------------------ *)
(* Errors                                                             *)
(* ------------------------------------------------------------------ *)

NoKey == <<>>

Err(kind) == [kind |-> kind, key |-> NoKey]

ErrNil == Err("nil")

ErrDuplicateKey(k) == [kind |-> "duplicate key", key |-> k]

ErrMissingKey(k) == [kind |-> "missing key", key |-> k]

ErrNotImplemented == Err("not implemented")

ErrParentNotFound == Err("parent config not found")

ErrAppDirNotExist == Err("app dir does not exist")

ErrConfigFileNotFound == Err("config file not found")

ErrEmptyFile == Err("empty file")

ErrUnmarshal == Err("unmarshal")

\* runtime panic: assignment to entry in nil map
ErrPanicNilMap == Err("panic: assignment to entry in nil map")

(* ------------------------------------------------------------------ *)
(* Path resolver                                                      *)
(* ------------------------------------------------------------------ *)

EnvDev == <<"dev">>

Sample == <<"sample">>

samplePrefix == Sample \o <<".">>

FileTypeENV == <<".", "env">>

FileTypeSH == <<".", "sh">>

FileTypeJSON == <<".", "json">>

FileTypeYAML == <<".", "yaml">>

\* mutation: the structured name of a sample file has no sample prefix
configFileNameNoSample(isSample, env, fileType) ==
  IF fileType = FileTypeENV /\ ~isSample /\ env = <<>> THEN <<".", "env">>
  ELSE IF fileType = FileTypeSH
  THEN (IF isSample THEN Sample ELSE <<>>) \o <<".", "env">>
       \o (IF env # <<>> THEN <<".">> \o env ELSE env) \o fileType
  ELSE <<"config">>
       \o (IF env # <<>> THEN <<".">> \o env ELSE env) \o fileType

\* the name getConfigFilePath builds once the sample marker is stripped:
\* isSample tells whether env held the marker, env is what is left of it
configFileName(isSample, env, fileType) ==
  IF fileType = FileTypeENV /\ ~isSample /\ env = <<>> THEN <<".", "env">>
  ELSE IF fileType = FileTypeSH
  THEN (IF isSample THEN Sample ELSE <<>>) \o <<".", "env">>
       \o (IF env # <<>> THEN <<".">> \o env ELSE env) \o fileType
  ELSE (IF isSample THEN samplePrefix ELSE <<>>) \o <<"config">>
       \o (IF env # <<>> THEN <<".">> \o env ELSE env) \o fileType

\* getConfigFilePath for an env already trimmed of white space
stripSample(env, fileType) ==
  configFileName(Contains(env, samplePrefix),
                 Replace1(env, samplePrefix, <<>>), fileType)

\* mutation: the directory is not looked at
getConfigFilePathNoStat(appDir, env, fileType) ==
  [err |-> ErrNil,
   path |-> Join(appDir, stripSample(TrimSpace(env), fileType))]

getConfigFilePath(appDir, env, fileType) ==
  IF appDir \notin dirs THEN [err |-> ErrAppDirNotExist, path |-> <<>>]
  ELSE [err |-> ErrNil,
        path |-> Join(appDir, stripSample(TrimSpace(env), fileType))]

\* mutation: the structured formats are tried before the line codec
LoadPrecedenceJsonFirst == <<FileTypeJSON, FileTypeYAML, FileTypeENV, FileTypeSH>>

LoadPrecedence == <<FileTypeENV, FileTypeSH, FileTypeJSON, FileTypeYAML>>

\* paths = append(paths, configPath) when the branch is taken, or the return
\* of the error of getConfigFilePath; nothing more is done after an error
appendPath(acc, taken, p) ==
  IF ~taken \/ acc.err # ErrNil THEN acc
  ELSE IF p.err # ErrNil THEN [err |-> p.err, paths |-> acc.paths]
  ELSE [err |-> ErrNil, paths |-> Append(acc.paths, p.path)]

\* getConfigFilePaths: the loop over the file types from index i on
RECURSIVE getConfigFilePathsFrom(_, _, _, _)
\* mutation: the environment-less name is a candidate for every env
getConfigFilePathsAnyEnv(appDir, env, i, acc) ==
  IF i > Len(LoadPrecedence) THEN acc
  ELSE getConfigFilePathsFrom(appDir, env, i + 1,
         appendPath(
           appendPath(acc, LoadPrecedence[i] # FileTypeENV,
                      getConfigFilePath(appDir, env, LoadPrecedence[i])),
           TRUE,
           getConfigFilePath(appDir, <<>>, LoadPrecedence[i])))

getConfigFilePathsFrom(appDir, env, i, acc) ==
  IF i > Len(LoadPrecedence) THEN acc
  ELSE getConfigFilePathsFrom(appDir, env, i + 1,
         appendPath(
           appendPath(acc, LoadPrecedence[i] # FileTypeENV,
                      getConfigFilePath(appDir, env, LoadPrecedence[i])),
           env = EnvDev,
           getConfigFilePath(appDir, <<>>, LoadPrecedence[i])))

getConfigFilePaths(appDir, env) ==
  getConfigFilePathsFrom(appDir, env, 1, [err |-> ErrNil, paths |-> <<>>])

(* ------------------------------------------------------------------ *)
(* Loader: file selection                                             *)
(* ------------------------------------------------------------------ *)

Exists(path) == path \in DOMAIN fs

\* mutation: an empty candidate is passed over like a missing one
FirstExistingNonEmpty(paths) ==
  FirstOf({i \in 1..Len(paths) :
             Exists(paths[i]) /\ TrimSpace(fs[paths[i]]) # <<>>})

\* index of the first candidate that exists on disk, 0 if none
FirstExisting(paths) == FirstOf({i \in 1..Len(paths) : Exists(paths[i])})

\* mutation: the content of the selected file is not checked
readSelectedNoEmptyCheck(paths, i) ==
  IF i = 0
  THEN [err |-> ErrConfigFileNotFound, configPath |-> paths[Len(paths)],
        b |-> <<>>]
  ELSE [err |-> ErrNil, configPath |-> paths[i], b |-> fs[paths[i]]]

\* ReadConfigFile after the loop: i is the index of the candidate the loop
\* stopped at, 0 if it ran through
readSelected(paths, i) ==
  IF i = 0
  THEN [err |-> ErrConfigFileNotFound, configPath |-> paths[Len(paths)],
        b |-> <<>>]
  ELSE IF TrimSpace(fs[paths[i]]) = <<>>
  THEN [err |-> ErrEmptyFile, configPath |-> paths[i], b |-> fs[paths[i]]]
  ELSE [err |-> ErrNil, configPath |-> paths[i], b |-> fs[paths[i]]]

\* ReadConfigFile given the result of getConfigFilePaths
readCandidates(r) ==
  IF r.err # ErrNil THEN [err |-> r.err, configPath |-> <<>>, b |-> <<>>]
  ELSE readSelected(r.paths, FirstExisting(r.paths))

ReadConfigFile(appDir, env) == readCandidates(getConfigFilePaths(appDir, env))

(* ------------------------------------------------------------------ *)
(* Codecs                                                             *)
(* ------------------------------------------------------------------ *)

EmptyMap == [k \in {} |-> <<>>]

\* m[k] = v
MapPut(m, k, v) == [x \in (DOMAIN m) \cup {k} |-> IF x = k THEN v ELSE m[x]]

\* delete(m, k)
MapDelete(m, k) == [x \in (DOMAIN m) \ {k} |-> m[x]]

\* the index an empty set of stops stands for: past the end of s
OrEnd(s, i) == IF i = 0 THEN Len(s) + 1 ELSE i

\* first index j >= i with j > Len(s) or s[j] not white space
SkipSpace(s, i) == OrEnd(s, FirstOf({j \in i..Len(s) : ~IsSpace(s[j])}))

\* first index j >= i with j > Len(s) or s[j] not a key character
SkipWord(s, i) == OrEnd(s, FirstOf({j \in i..Len(s) : ~IsWord(s[j])}))

\* index of the last token of the line that holds position i
LineEnd(s, i) == OrEnd(s, FirstOf({j \in i..Len(s) : s[j] = "\n"})) - 1

Quote == <<"\"">>

\* where (.+) starts when the text after "=" begins at i4: after the white
\* space \s* takes greedily, or, when that runs to the end of the text, at
\* the last blank of it, which \s* gives back; 0 when there is nothing
valueStart(s, i4) ==
  IF SkipSpace(s, i4) <= Len(s) THEN SkipSpace(s, i4)
  ELSE LastOf({k \in i4..Len(s) : s[k] = " "})

\* the body of the loop of UnmarshalENV on a match whose "=" is at i3 and
\* whose (.+) starts at vfrom
envValue(s, p, i3, vfrom) ==
  IF vfrom = 0
  THEN [ok |-> FALSE, key |-> <<>>, value |-> <<>>, end |-> LineEnd(s, p)]
  ELSE [ok |-> TRUE, key |-> TrimSpace(SubSeq(s, p, i3 - 1)),
        value |-> TrimSuffix(
                    TrimPrefix(
                      TrimSpace(SubSeq(s, i3 + 1, LineEnd(s, vfrom))), Quote),
                    Quote),
        end |-> LineEnd(s, vfrom)]

\* the match attempted at p, i3 being the first index after \s*([...]+)\s*
envKey(s, p, i3) ==
  IF TrimSpace(SubSeq(s, p, i3 - 1)) = <<>> \/ i3 > Len(s) \/ s[i3] # "="
  THEN [ok |-> FALSE, key |-> <<>>, value |-> <<>>, end |-> LineEnd(s, p)]
  ELSE envValue(s, p, i3, valueStart(s, i3 + 1))

\* One match of (?m)^\s*([_a-zA-Z0-9]+)\s*=\s*(.+)\s*$ attempted at the line
\* start p, followed by the body of the loop of UnmarshalENV on that match.
\* \s also matches "\n", so the key, the "=" and the value may sit on
\* different lines.  end is the end of the line (.+) matched on, or of the
\* line of p when there is no match; the white space the trailing \s* takes
\* is removed by TrimSpace anyway.
envMatch(s, p) == envKey(s, p, SkipSpace(s, SkipWord(s, SkipSpace(s, p))))

\* FindAllString: leftmost matches, tried at successive line starts
RECURSIVE envScan(_, _, _)
envNext(s, m, r) ==
  envScan(s, r.end + 2, IF r.ok THEN MapPut(m, r.key, r.value) ELSE m)

envScan(s, p, m) == IF p > Len(s) THEN m ELSE envNext(s, m, envMatch(s, p))

UnmarshalENV(b) == [err |-> ErrNil, nil |-> FALSE, m |-> envScan(b, 1, EmptyMap)]

\* a JSON string at the head of t, and what follows it
jsonString(t) ==
  IF Len(t) < 2 \/ t[1] # "\"" \/ ~Contains(Tail(t), Quote)
  THEN [ok |-> FALSE, s |-> <<>>, rest |-> <<>>]
  ELSE [ok |-> TRUE, s |-> SubSeq(t, 2, Index(Tail(t), Quote)),
        rest |-> SubSeq(t, Index(Tail(t), Quote) + 2, Len(t))]

\* the members of a flat JSON object: "key":"value" separated by commas
RECURSIVE jsonMembers(_, _)
jsonValue(key, v, m) ==
  IF ~v.ok THEN [ok |-> FALSE, m |-> m]
  ELSE IF v.rest = <<>> THEN [ok |-> TRUE, m |-> MapPut(m, key, v.s)]
  ELSE IF v.rest[1] = "," THEN jsonMembers(Tail(v.rest), MapPut(m, key, v.s))
  ELSE [ok |-> FALSE, m |-> m]

jsonKey(k, m) ==
  IF ~k.ok \/ k.rest = <<>> \/ k.rest[1] # ":"
  THEN [ok |-> FALSE, m |-> m]
  ELSE jsonValue(k.s, jsonString(Tail(k.rest)), m)

jsonMembers(t, m) == jsonKey(jsonString(t), m)

jsonResult(r) ==
  IF r.ok THEN [err |-> ErrNil, nil |-> FALSE, m |-> r.m]
  ELSE [err |-> ErrUnmarshal, nil |-> TRUE, m |-> EmptyMap]

\* the document t without white space
jsonDocument(t) ==
  IF t = <<"null">> THEN [err |-> ErrNil, nil |-> TRUE, m |-> EmptyMap]
  ELSE IF t = <<"{", "}">> THEN [err |-> ErrNil, nil |-> FALSE, m |-> EmptyMap]
  ELSE IF Len(t) > 2 /\ t[1] = "{" /\ t[Len(t)] = "}"
  THEN jsonResult(jsonMembers(SubSeq(t, 2, Len(t) - 1), EmptyMap))
  ELSE [err |-> ErrUnmarshal, nil |-> TRUE, m |-> EmptyMap]

\* encoding/json Unmarshal into a nil map[string]string, for texts whose
\* strings hold no white space: null leaves the map nil
jsonUnmarshal(b) == jsonDocument(SelectSeq(b, LAMBDA x : ~IsSpace(x)))

\* one "key: value" line with its colon at c
yamlPair(line, c, acc) ==
  IF c <= 1 THEN [ok |-> FALSE, any |-> TRUE, m |-> acc.m]
  ELSE [ok |-> acc.ok, any |-> TRUE,
        m |-> MapPut(acc.m, SubSeq(line, 1, c - 1),
                     TrimSpace(SubSeq(line, c + 1, Len(line))))]

\* one trimmed line: comment and blank lines are skipped
yamlLine(line, acc) ==
  IF line = <<>> \/ line[1] = "#" THEN acc
  ELSE yamlPair(line, Index(line, <<":">>), acc)

\* the lines of a block mapping, from position p on
RECURSIVE yamlLines(_, _, _)
yamlLines(s, p, acc) ==
  IF p > Len(s) THEN acc
  ELSE yamlLines(s, LineEnd(s, p) + 2,
                 yamlLine(TrimSpace(SubSeq(s, p, LineEnd(s, p))), acc))

yamlResult(r) ==
  IF ~r.ok THEN [err |-> ErrUnmarshal, nil |-> TRUE, m |-> EmptyMap]
  ELSE [err |-> ErrNil, nil |-> ~r.any, m |-> r.m]

\* yaml.v2 Unmarshal into a nil map[string]string: a text with no document
\* (only comments) or the scalar null leaves the map nil
yamlUnmarshal(b) ==
  IF TrimSpace(b) = <<"null">> THEN [err |-> ErrNil, nil |-> TRUE, m |-> EmptyMap]
  ELSE yamlResult(yamlLines(b, 1, [ok |-> TRUE, any |-> FALSE, m |-> EmptyMap]))

(* ------------------------------------------------------------------ *)
(* Ordered key-value store                                            *)
(* ------------------------------------------------------------------ *)

\* the least element of S in byte order
Least(S) == CHOOSE x \in S : \A y \in S \ {x} : strLess(x, y)

\* the elements of S in ascending byte order
RECURSIVE sortStrings(_)
sortStrings(S) ==
  IF S = {} THEN <<>> ELSE <<Least(S)>> \o sortStrings(S \ {Least(S)})

(* ------------------------------------------------------------------ *)
(* Environment enumeration                                            *)
(* ------------------------------------------------------------------ *)

\* filepath.Base of a cleaned path
Base(p) == SubSeq(p, LastSlash(p) + 1, Len(p))

\* filepath.Match(prefix + "*" + suffix, name) for a name without separator
globMatch(name, prefix, suffix) ==
  /\ Len(prefix) + Len(suffix) <= Len(name)
  /\ HasPrefix(name, prefix)
  /\ HasSuffix(name, suffix)

\* the paths of a sorted list of names of dir
globPaths(dir, names) == [i \in 1..Len(names) |-> Join(dir, names[i])]

\* filepath.Glob(filepath.Join(dir, prefix + "*" + suffix)): the names of
\* dir are read, sorted, and matched one by one; a directory that cannot be
\* read gives no match and no error
Glob(dir, prefix, suffix) ==
  globPaths(dir,
    SelectSeq(sortStrings({Base(p) : p \in {q \in DOMAIN fs : Dir(q) = Clean(dir)}}),
              LAMBDA n : globMatch(n, prefix, suffix)))

\* [\w\-]
IsEnvChar(t) == IsWord(t) \/ t = "-"

\* the last index of the run of [\w\-] that starts at i
envRunEnd(s, i) == OrEnd(s, FirstOf({j \in i..Len(s) : ~IsEnvChar(s[j])})) - 1

\* config\.(\w+[\w\-]*)\.json matches s from index i on
envMatchAt(s, i) ==
  /\ i + 4 <= Len(s)
  /\ s[i] = "config"
  /\ s[i + 1] = "."
  /\ IsWord(s[i + 2])
  /\ envRunEnd(s, i + 2) + 2 <= Len(s)
  /\ s[envRunEnd(s, i + 2) + 1] = "."
  /\ s[envRunEnd(s, i + 2) + 2] = "json"

\* the submatch of the match at i, the empty string when there is no match
envSubmatchAt(s, i) ==
  IF i = 0 THEN <<>> ELSE SubSeq(s, i + 2, envRunEnd(s, i + 2))

\* r.FindStringSubmatch(baseName)[1] of the leftmost match
envSubmatch(s) == envSubmatchAt(s, FirstOf({i \in 1..Len(s) : envMatchAt(s, i)}))

\* the env of one glob match, the empty string when the name is skipped
envOfName(baseName, env) ==
  IF env = <<>> THEN <<>>
  ELSE IF HasPrefix(baseName, samplePrefix) THEN samplePrefix \o env
  ELSE env

\* the loop of getEnvs over the glob matches
envsOfMatches(matches) ==
  SelectSeq([i \in 1..Len(matches) |->
               envOfName(Base(matches[i]), envSubmatch(Base(matches[i])))],
            LAMBDA e : e # <<>>)

getEnvs(appDir, samples) ==
  [envs |-> envsOfMatches(
              Glob(appDir,
                   (IF samples THEN samplePrefix ELSE <<>>) \o <<"config", ".">>,
                   <<".", "json">>)),
   err |-> ErrNil]

\* &conf{}: Map nil, Keys nil
NewConf == [Map |-> EmptyMap, MapNil |-> TRUE, Keys |-> <<>>]

refreshKeys(c) == [c EXCEPT !.Keys = sortStrings(DOMAIN c.Map)]

\* conf.extend: the outcomes over every iteration order of ext.Map.
\* todo is the set of keys of ext.Map not yet visited.
RECURSIVE extendFrom(_, _, _)
extendFrom(c, ext, todo) ==
  IF todo = {} THEN {[err |-> ErrNil, c |-> c]}
  ELSE UNION {
         IF k \in DOMAIN c.Map THEN {[err |-> ErrDuplicateKey(k), c |-> c]}
         ELSE IF c.MapNil THEN {[err |-> ErrPanicNilMap, c |-> c]}
         ELSE extendFrom([c EXCEPT !.Map = MapPut(c.Map, k, ext.Map[k])],
                         ext, todo \ {k})
         : k \in todo }

extend(c, ext) == extendFrom(c, ext, DOMAIN ext.Map)

(* ------------------------------------------------------------------ *)
(* Loader                                                             *)
(* ------------------------------------------------------------------ *)

\* the decoder loadConf picks by the extension of the selected file
unmarshal(fileType, b) ==
  IF fileType = FileTypeENV \/ fileType = FileTypeSH THEN UnmarshalENV(b)
  ELSE IF fileType = FileTypeJSON THEN jsonUnmarshal(b)
  ELSE IF fileType = FileTypeYAML THEN yamlUnmarshal(b)
  ELSE [err |-> ErrNil, nil |-> TRUE, m |-> EmptyMap]

\* loadConf after decoding: u is what the decoder returned
decoded(configPath, u) ==
  IF u.err # ErrNil
  THEN [configPath |-> configPath, c |-> NewConf, err |-> u.err]
  ELSE [configPath |-> configPath,
        c |-> refreshKeys([Map |-> u.m, MapNil |-> u.nil, Keys |-> <<>>]),
        err |-> ErrNil]

\* loadConf given the result of ReadConfigFile
loadFile(r) ==
  IF r.err # ErrNil
  THEN [configPath |-> r.configPath, c |-> NewConf, err |-> r.err]
  ELSE decoded(r.configPath, unmarshal(Ext(r.configPath), r.b))

loadConf(appDir, env) == loadFile(ReadConfigFile(appDir, env))

\* newSingleConf given the result of loadConf
singleOf(r) ==
  IF r.err # ErrNil
  THEN [configPaths |-> <<>>, c |-> r.c, err |-> r.err]
  ELSE [configPaths |-> <<r.configPath>>, c |-> r.c, err |-> ErrNil]

newSingleConf(appDir, env) == singleOf(loadConf(appDir, env))

(* ------------------------------------------------------------------ *)
(* Composition engine                                                 *)
(* ------------------------------------------------------------------ *)

\* What an operation hands back.  main is the final content of the store
\* object the caller handed in (newExtendedConf works on params.mainConf in
\* place); loaded lists the directories given to loadConf, in call order.
Result(configPaths, c, err, main, loaded) ==
  [configPaths |-> configPaths, c |-> c, err |-> err, main |-> main,
   loaded |-> loaded, b |-> <<>>, envs |-> <<>>, cmd |-> "", files |-> <<>>,
   exitCode |-> 0]

\* mutation: the keys are not refreshed after the extensions are merged
extendedStaleKeys(c, configPaths, loaded) ==
  {Result(configPaths, c, ErrNil, c, loaded)}

\* newExtendedConf after the loop
extended(c, configPaths, loaded) ==
  {Result(configPaths, refreshKeys(c), ErrNil, refreshKeys(c), loaded)}

\* newExtendedConf: the loop over params.extend from index i on
RECURSIVE newExtendedConfFrom(_, _, _, _, _, _, _)
\* the body of the loop once the extension directory is loaded as r
extendWith(appDir, env, extendList, i, c, configPaths, loaded, r) ==
  IF r.err # ErrNil
  THEN {Result(configPaths, c, r.err, c, loaded)}
  ELSE UNION {
         IF e.err # ErrNil
         THEN {Result(Append(configPaths, r.configPath), e.c, e.err, e.c,
                      loaded)}
         ELSE newExtendedConfFrom(appDir, env, extendList, i + 1, e.c,
                                  Append(configPaths, r.configPath), loaded)
         : e \in extend(c, r.c) }

newExtendedConfFrom(appDir, env, extendList, i, c, configPaths, loaded) ==
  IF i > Len(extendList) THEN extended(c, configPaths, loaded)
  ELSE extendWith(appDir, env, extendList, i, c, configPaths,
                  Append(loaded, Join(appDir, extendList[i])),
                  loadConf(Join(appDir, extendList[i]), env))

newExtendedConf(mainConf, configPaths, appDir, env, extendList, loaded) ==
  newExtendedConfFrom(appDir, env, extendList, 1, mainConf, configPaths, loaded)

\* bound on the iterations of the parent search
MaxWalk == 4

ErrDiverged == Err("parent search does not end")

\* what the search loop leaves behind
Searched(found, r, loaded, diverged) ==
  [found |-> found, configPath |-> r.configPath, c |-> r.c,
   loaded |-> loaded, diverged |-> diverged]

\* newMergedConf: the search loop, entered with parentDir
RECURSIVE parentSearch(_, _, _, _)
\* the body of the loop once parentDir is loaded as r
parentStep(parentDir, env, loaded, fuel, r) ==
  IF r.err = ErrNil THEN Searched(TRUE, r, loaded, FALSE)
  ELSE IF Dir(parentDir) = Separator \/ Dir(parentDir) = <<".">>
  THEN Searched(FALSE, r, loaded, FALSE)
  ELSE IF fuel = 0 THEN Searched(FALSE, r, loaded, TRUE)
  ELSE parentSearch(Dir(parentDir), env, loaded, fuel - 1)

parentSearch(parentDir, env, loaded, fuel) ==
  parentStep(parentDir, env, Append(loaded, parentDir), fuel,
             loadConf(parentDir, env))

\* newMergedConf after the search loop left s
mergeInto(extConf, configPath, s) ==
  IF s.diverged
  THEN {Result(<<>>, s.c, ErrDiverged, extConf, s.loaded)}
  ELSE IF ~s.found
  THEN {Result(<<>>, s.c, ErrParentNotFound, extConf, s.loaded)}
  ELSE { IF e.err # ErrNil
         THEN Result(<<s.configPath, configPath>>, e.c, e.err, extConf,
                     s.loaded)
         ELSE Result(<<s.configPath, configPath>>, refreshKeys(e.c), ErrNil,
                     extConf, s.loaded)
         : e \in extend(s.c, extConf) }

newMergedConf(extConf, configPath, appDir, env, loaded) ==
  mergeInto(extConf, configPath,
            parentSearch(Dir(appDir), env, loaded, MaxWalk))

KeyPrefixExtensions(prefix) == prefix \o <<"X">>

KeyExtensionsDir(prefix) == prefix \o <<"X", "_DIR">>

\* strings.Split(s, ",")
RECURSIVE SplitComma(_)
SplitComma(s) ==
  IF ~Contains(s, <<",">>) THEN <<s>>
  ELSE <<SubSeq(s, 1, Index(s, <<",">>) - 1)>>
       \o SplitComma(SubSeq(s, Index(s, <<",">>) + 1, Len(s)))

\* mutation: the declared names are taken in reverse order
declaredExtensionsReversed(dir, parts) ==
  [i \in 1..Len(parts) |-> Join(dir, parts[Len(parts) + 1 - i])]

\* the extension directories a config declares for itself
declaredExtensions(dir, parts) ==
  [i \in 1..Len(parts) |-> Join(dir, parts[i])]

\* mutation: a list key without the dir key is taken as no declaration
selfExtendedDirOptional(prefix, appDir, env, s) ==
  IF \A i \in 1..Len(s.c.Keys) : s.c.Keys[i] # KeyPrefixExtensions(prefix)
  THEN {Result(s.configPaths, s.c, ErrNil, s.c, <<appDir>>)}
  ELSE IF KeyExtensionsDir(prefix) \notin DOMAIN s.c.Map
  THEN {Result(s.configPaths, s.c, ErrNil, s.c, <<appDir>>)}
  ELSE newExtendedConf(s.c, s.configPaths, appDir, env,
         declaredExtensions(s.c.Map[KeyExtensionsDir(prefix)],
                            SplitComma(s.c.Map[KeyPrefixExtensions(prefix)])),
         <<appDir>>)

\* newConf when the request names no extension and no merge
selfExtended(prefix, appDir, env, s) ==
  IF \A i \in 1..Len(s.c.Keys) : s.c.Keys[i] # KeyPrefixExtensions(prefix)
  THEN {Result(s.configPaths, s.c, ErrNil, s.c, <<appDir>>)}
  ELSE IF KeyExtensionsDir(prefix) \notin DOMAIN s.c.Map
  THEN {Result(s.configPaths, s.c, ErrMissingKey(KeyExtensionsDir(prefix)),
               s.c, <<appDir>>)}
  ELSE IF KeyPrefixExtensions(prefix) \notin DOMAIN s.c.Map
  THEN {Result(s.configPaths, s.c, ErrMissingKey(KeyPrefixExtensions(prefix)),
               s.c, <<appDir>>)}
  ELSE newExtendedConf(s.c, s.configPaths, appDir, env,
         declaredExtensions(s.c.Map[KeyExtensionsDir(prefix)],
                            SplitComma(s.c.Map[KeyPrefixExtensions(prefix)])),
         <<appDir>>)

\* mutation: extend together with merge is not rejected
composeNoReject(prefix, appDir, env, extendList, merge, s) ==
  IF s.err # ErrNil
  THEN {Result(s.configPaths, s.c, s.err, s.c, <<appDir>>)}
  ELSE IF Len(extendList) > 0
  THEN newExtendedConf(s.c, s.configPaths, appDir, env, extendList,
                       <<appDir>>)
  ELSE IF merge /\ Len(s.configPaths) > 0
  THEN newMergedConf(s.c, s.configPaths[1], appDir, env, <<appDir>>)
  ELSE selfExtended(prefix, appDir, env, s)

\* newConf once newSingleConf has returned s
compose(prefix, appDir, env, extendList, merge, s) ==
  IF s.err # ErrNil
  THEN {Result(s.configPaths, s.c, s.err, s.c, <<appDir>>)}
  ELSE IF Len(extendList) > 0 /\ merge
  THEN {Result(s.configPaths, s.c, ErrNotImplemented, s.c, <<appDir>>)}
  ELSE IF Len(extendList) > 0
  THEN newExtendedConf(s.c, s.configPaths, appDir, env, extendList,
                       <<appDir>>)
  ELSE IF merge /\ Len(s.configPaths) > 0
  THEN newMergedConf(s.c, s.configPaths[1], appDir, env, <<appDir>>)
  ELSE selfExtended(prefix, appDir, env, s)

newConf(prefix, appDir, env, extendList, merge) ==
  compose(prefix, appDir, env, extendList, merge, newSingleConf(appDir, env))

(* ------------------------------------------------------------------ *)
(* update-config: refreshConfigByEnv                                  *)
(* ------------------------------------------------------------------ *)

ErrKeyPrefix == Err("key must start with prefix")

ErrMissingValue == Err("missing value for key")

ErrEmptyConfigPath == Err("empty config path")

ErrInvalidFileName == Err("invalid file name")

\* fs.ErrNotExist, from os.Open of a missing file
ErrNotExist == Err("file does not exist")

\* fs.ErrExist
ErrExist == Err("file already exists")

\* MarshalENV: one KEY=VALUE line per key of c.Keys
RECURSIVE marshalENVFrom(_, _, _)
marshalENVFrom(c, i, buf) ==
  IF i > Len(c.Keys) THEN [err |-> ErrNil, b |-> buf]
  ELSE IF c.Keys[i] \notin DOMAIN c.Map
  THEN [err |-> ErrMissingKey(c.Keys[i]), b |-> <<>>]
  ELSE marshalENVFrom(c, i + 1,
         buf \o c.Keys[i] \o <<"=">> \o c.Map[c.Keys[i]] \o <<"\n">>)

MarshalENV(c) == marshalENVFrom(c, 1, <<>>)

Indent == <<" ", " ", " ", " ">>

RECURSIVE jsonMemberLines(_, _, _)
jsonMemberLines(m, ks, i) ==
  IF i > Len(ks) THEN <<>>
  ELSE Indent \o Quote \o ks[i] \o Quote \o <<":", " ">>
       \o Quote \o m[ks[i]] \o Quote
       \o (IF i < Len(ks) THEN <<",">> ELSE <<>>) \o <<"\n">>
       \o jsonMemberLines(m, ks, i + 1)

\* json.MarshalIndent(c.Map, "", "    "): keys sorted; a nil map gives null
jsonMarshalIndent(c) ==
  IF c.MapNil THEN <<"null">>
  ELSE IF DOMAIN c.Map = {} THEN <<"{", "}">>
  ELSE <<"{", "\n">> \o jsonMemberLines(c.Map, sortStrings(DOMAIN c.Map), 1)
       \o <<"}">>

RECURSIVE yamlMemberLines(_, _, _)
yamlMemberLines(m, ks, i) ==
  IF i > Len(ks) THEN <<>>
  ELSE ks[i] \o <<":", " ">> \o m[ks[i]] \o <<"\n">>
       \o yamlMemberLines(m, ks, i + 1)

\* yaml.Marshal(c.Map): keys sorted; an empty or nil map gives {}
yamlMarshal(c) ==
  IF DOMAIN c.Map = {} THEN <<"{", "}", "\n">>
  ELSE yamlMemberLines(c.Map, sortStrings(DOMAIN c.Map), 1)

\* refreshConfigByEnv: the loop over keys from index i on
RECURSIVE applyKeys(_, _, _, _, _, _)
applyKeys(c, prefix, keys, values, del, i) ==
  IF i > Len(keys) THEN [err |-> ErrNil, c |-> c]
  ELSE IF ~HasPrefix(keys[i], prefix) THEN [err |-> ErrKeyPrefix, c |-> c]
  ELSE IF del
  THEN applyKeys(refreshKeys([c EXCEPT !.Map = MapDelete(c.Map, keys[i])]),
                 prefix, keys, values, del, i + 1)
  ELSE IF i > Len(values) THEN [err |-> ErrMissingValue, c |-> c]
  ELSE IF c.MapNil THEN [err |-> ErrPanicNilMap, c |-> c]
  ELSE applyKeys(refreshKeys([c EXCEPT !.Map = MapPut(c.Map, keys[i], values[i])]),
                 prefix, keys, values, del, i + 1)

Formats == {FileTypeENV, FileTypeSH, FileTypeJSON, FileTypeYAML}

\* the encoder refreshConfigByEnv picks by file type
marshal(fileType, c) ==
  IF fileType = FileTypeENV \/ fileType = FileTypeSH THEN MarshalENV(c)
  ELSE IF fileType = FileTypeJSON
  THEN [err |-> ErrNil, b |-> jsonMarshalIndent(c)]
  ELSE IF fileType = FileTypeYAML THEN [err |-> ErrNil, b |-> yamlMarshal(c)]
  ELSE [err |-> ErrNil, b |-> <<>>]

\* refreshConfigByEnv once the store is encoded as m
encoded(appDir, configPaths, c, m) ==
  IF m.err # ErrNil THEN Result(configPaths, c, m.err, c, <<appDir>>)
  ELSE [Result(configPaths, c, ErrNil, c, <<appDir>>) EXCEPT !.b = m.b]

\* refreshConfigByEnv when a format is given: p is the path for that format
converted(appDir, configPaths, dotFormat, c, p) ==
  IF p.err # ErrNil
  THEN Result([configPaths EXCEPT ![1] = p.path], c, p.err, c, <<appDir>>)
  ELSE encoded(appDir, [configPaths EXCEPT ![1] = p.path], c,
               marshal(dotFormat, c))

\* refreshConfigByEnv once the keys are applied, leaving a
applied(appDir, env, dotFormat, configPaths, a) ==
  IF a.err # ErrNil
  THEN Result(configPaths, a.c, a.err, a.c, <<appDir>>)
  ELSE IF Len(configPaths) = 0
  THEN Result(configPaths, a.c, ErrEmptyConfigPath, a.c, <<appDir>>)
  ELSE IF dotFormat \in Formats
  THEN converted(appDir, configPaths, dotFormat, a.c,
                 getConfigFilePath(appDir, env, dotFormat))
  ELSE encoded(appDir, configPaths, a.c, marshal(Ext(configPaths[1]), a.c))

\* refreshConfigByEnv once newSingleConf has returned s
refreshed(appDir, prefix, env, keys, values, del, dotFormat, s) ==
  IF s.err # ErrNil THEN Result(s.configPaths, s.c, s.err, s.c, <<appDir>>)
  ELSE applied(appDir, env, dotFormat, s.configPaths,
               applyKeys(s.c, prefix, keys, values, del, 1))

refreshConfigByEnv(appDir, prefix, env, keys, values, del, format) ==
  refreshed(appDir, prefix, env, keys, values, del, <<".">> \o format,
            newSingleConf(appDir, env))

(* ------------------------------------------------------------------ *)
(* Commands: Cmd and Process                                          *)
(* ------------------------------------------------------------------ *)

CmdCompare == "compare"

CmdGenerate == "generate"

CmdUpdateConfig == "update-config"

CmdVersion == "version"

\* CmdOut, with the error Cmd returns next to it
CmdOut(cmd, buf, files, exitCode, err) ==
  [cmd |-> cmd, buf |-> buf, files |-> files, exitCode |-> exitCode,
   err |-> err]

\* buf.WriteString(item + "\n") for each item
RECURSIVE keyLines(_)
keyLines(ks) == IF ks = <<>> THEN <<>> ELSE ks[1] \o <<"\n">> \o keyLines(Tail(ks))

\* mutation: only the keys of the env config that compare lacks are listed
unmatchedOneSided(config, compConfig) ==
  {k \in {config.Keys[i] : i \in 1..Len(config.Keys)} :
     k \notin DOMAIN compConfig.Map}

\* compareKeys: the keys of each config that the Map of the other lacks
unmatched(config, compConfig) ==
  {k \in {config.Keys[i] : i \in 1..Len(config.Keys)} :
     k \notin DOMAIN compConfig.Map}
  \cup {k \in {compConfig.Keys[i] : i \in 1..Len(compConfig.Keys)} :
          k \notin DOMAIN config.Map}

\* compareKeys once both configs are resolved as r and rc
compared(r, rc) ==
  IF r.err # ErrNil THEN [err |-> r.err, buf |-> <<>>]
  ELSE IF rc.err # ErrNil THEN [err |-> rc.err, buf |-> <<>>]
  ELSE [err |-> ErrNil, buf |-> keyLines(sortStrings(unmatched(r.c, rc.c)))]

compareKeys(in) ==
  {compared(r, rc) :
     r \in newConf(<<>>, in.appDir, in.env, in.extend, in.merge),
     rc \in newConf(<<>>, in.appDir, in.compare, in.extend, in.merge)}

\* updateConfig: the envs the request names
updateEnvs(in) ==
  IF in.all
  THEN getEnvs(in.appDir, FALSE).envs \o getEnvs(in.appDir, TRUE).envs
  ELSE IF in.env = <<"*">> THEN getEnvs(in.appDir, FALSE).envs
  ELSE IF in.env = <<"sample", ".", "*">> THEN getEnvs(in.appDir, TRUE).envs
  ELSE <<in.env>>

\* updateConfig: the loop over the envs from index i on
RECURSIVE updateConfigFrom(_, _, _, _)
\* the body of the loop once refreshConfigByEnv has returned r
updateStep(in, envs, i, files, r) ==
  IF r.err # ErrNil THEN [err |-> r.err, files |-> files]
  ELSE IF Len(r.configPaths) = 0
  THEN [err |-> ErrEmptyConfigPath, files |-> files]
  ELSE updateConfigFrom(in, envs, i + 1,
         Append(files, [path |-> r.configPaths[1], b |-> r.b]))

updateConfigFrom(in, envs, i, files) ==
  IF i > Len(envs) THEN [err |-> ErrNil, files |-> files]
  ELSE updateStep(in, envs, i, files,
         refreshConfigByEnv(in.appDir, in.prefix, envs[i], in.keys, in.values,
                            in.del, in.format))

updateConfig(in) == updateConfigFrom(in, updateEnvs(in), 1, <<>>)

FileNameConfigGo == <<"config", ".", "go">>

FileNameTemplateGo == <<"template", ".", "go">>

FileNameFnGo == <<"fn", ".", "go">>

\* The nodes of a parsed text/template. The literal text between two
\* actions is a sequence of tokens, one per line of the template; these
\* tokens are not in Alphabet, the generated text is never ordered or
\* scanned.
Text(ts) == [kind |-> "text", v |-> ts, body |-> <<>>]

\* {{.f}}
Field(f) == [kind |-> "field", v |-> f, body |-> <<>>]

\* {{range .f}} body {{end}}
Range(f, body) == [kind |-> "range", v |-> f, body |-> body]

\* {{if .f}} body {{end}}
If(f, body) == [kind |-> "if", v |-> f, body |-> body]

\* templates.go 42-196
templateConfigGo ==
  <<
    Text(<<"\n",
           "// Code generated with https://github.com/mozey/config DO NOT EDIT\n",
           "\n",
           "package config\n",
           "\n",
           "import (\n",
           "\t\"encoding/base64\"\n",
           "\t\"encoding/json\"\n",
           "\t\"os\"\n",
           "\n",
           "\t\"github.com/mozey/config/pkg/share\"\n",
           "\t\"github.com/pkg/errors\"\n",
           ")\n",
           "\n",
           "// KeyPrefix is not made publicly available on this package,\n",
           "// users must use the getter or setter methods.\n",
           "// This package must not change the config file\n",
           "\n">>),
    Range("Keys", <<
      Text(<<"\n",
             "// ">>),
      Field("KeyPrefix"),
      Text(<<"\n",
             "var ">>),
      Field("KeyPrivate"),
      Text(<<" string">>) >>),
    Text(<<"\n",
           "\n",
           "// Config fields correspond to config file keys less the prefix\n",
           "type Config struct {\n",
           "\t">>),
    Range("Keys", <<
      Text(<<"\n",
             "\t">>),
      Field("KeyPrivate"),
      Text(<<" string // ">>),
      Field("KeyPrefix") >>),
    Text(<<"\n",
           "}\n",
           "\n">>),
    Range("Keys", <<
      Text(<<"\n",
             "// ">>),
      Field("Key"),
      Text(<<" is ">>),
      Field("KeyPrefix"),
      Text(<<"\n",
             "func (c *Config) ">>),
      Field("Key"),
      Text(<<"() string {\n",
             "\treturn c.">>),
      Field("KeyPrivate"),
      Text(<<"\n",
             "}">>) >>),
    Text(<<"\n",
           "\n">>),
    Range("Keys", <<
      Text(<<"\n",
             "// Set">>),
      Field("Key"),
      Text(<<" overrides the value of ">>),
      Field("KeyPrivate"),
      Text(<<"\n",
             "func (c *Config) Set">>),
      Field("Key"),
      Text(<<"(v string) {\n",
             "\tc.">>),
      Field("KeyPrivate"),
      Text(<<" = v\n",
             "}\n">>) >>),
    Text(<<"\n",
           "\n",
           "// New creates an instance of Config.\n",
           "// Build with ldflags to set the package vars.\n",
           "// Env overrides package vars.\n",
           "// Fields correspond to the config file keys less the prefix.\n",
           "// The config file must have a flat structure\n",
           "func New() *Config {\n",
           "\tconf := &Config{}\n",
           "\tSetVars(conf)\n",
           "\tSetEnv(conf)\n",
           "\treturn conf\n",
           "}\n",
           "\n",
           "// SetVars sets non-empty package vars on Config\n",
           "func SetVars(conf *Config) {\n",
           "\t">>),
    Range("Keys", <<
      Text(<<"\n",
             "\tif ">>),
      Field("KeyPrivate"),
      Text(<<" != \"\" {\n",
             "\t\tconf.">>),
      Field("KeyPrivate"),
      Text(<<" = ">>),
      Field("KeyPrivate"),
      Text(<<"\n",
             "\t}\n",
             "\t">>) >>),
    Text(<<"\n",
           "}\n",
           "\n",
           "// SetEnv sets non-empty env vars on Config\n",
           "func SetEnv(conf *Config) {\n",
           "\tvar v string\n",
           "\n",
           "\t">>),
    Range("Keys", <<
      Text(<<"\n",
             "\tv = os.Getenv(\"">>),
      Field("KeyPrefix"),
      Text(<<"\")\n",
             "\tif v != \"\" {\n",
             "\t\tconf.">>),
      Field("KeyPrivate"),
      Text(<<" = v\n",
             "\t}\n",
             "\t">>) >>),
    Text(<<"\n",
           "}\n",
           "\n",
           "// GetMap of all env vars\n",
           "func (c *Config) GetMap() map[string]string {\n",
           "\tm := make(map[string]string)\n",
           "\t">>),
    Range("Keys", <<
      Text(<<"\n",
             "\tm[\"">>),
      Field("KeyPrefix"),
      Text(<<"\"] = c.">>),
      Field("KeyPrivate"),
      Text(<<"\n",
             "\t">>) >>),
    Text(<<"\n",
           "\treturn m\n",
           "}\n",
           "\n",
           "// SetEnvBase64 decodes and sets env from the given base64 string\n",
           "func SetEnvBase64(configBase64 string) (err error) {\n",
           "\t// Decode base64\n",
           "\tdecoded, err := base64.StdEncoding.DecodeString(configBase64)\n",
           "\tif err != nil {\n",
           "\t\treturn errors.WithStack(err)\n",
           "\t}\n",
           "\t// UnMarshall json\n",
           "\tconfigMap := make(map[string]string)\n",
           "\terr = json.Unmarshal(decoded, &configMap)\n",
           "\tif err != nil {\n",
           "\t\treturn errors.WithStack(err)\n",
           "\t}\n",
           "\t// Set config\n",
           "\tfor key, value := range configMap {\n",
           "\t\terr = os.Setenv(key, value)\n",
           "\t\tif err != nil {\n",
           "\t\t\treturn errors.WithStack(err)\n",
           "\t\t}\n",
           "\t}\n",
           "\n",
           "\treturn nil\n",
           "}\n",
           "\n",
           "// LoadFile sets the env from file and returns a new instance of Config\n",
           "func LoadFile(env string) (conf *Config, err error) {\n",
           "\tappDir := os.Getenv(\"APP_DIR\")\n",
           "\tif appDir == \"\" {\n",
           "\t\t// Use current working dir\n",
           "\t\tappDir, err = os.Getwd()\n",
           "\t\tif err != nil {\n",
           "\t\t\treturn conf, errors.WithStack(err)\n",
           "\t\t}\n",
           "\t}\n",
           "\n",
           "\tvar filePath string\n",
           "\tfilePaths, err := share.GetConfigFilePaths(appDir, env)\n",
           "\tif err != nil {\n",
           "\t\treturn conf, err\n",
           "\t}\n",
           "\tfor _, filePath = range filePaths {\n",
           "\t\t_, err := os.Stat(filePath)\n",
           "\t\tif err != nil {\n",
           "\t\t\tif os.IsNotExist(err) {\n",
           "\t\t\t\t// Path does not exist\n",
           "\t\t\t\tcontinue\n",
           "\t\t\t}\n",
           "\t\t\treturn conf, errors.WithStack(err)\n",
           "\t\t}\n",
           "\t\t// Path exists\n",
           "\t\tbreak\n",
           "\t}\n",
           "\tif filePath == \"\" {\n",
           "\t\treturn conf, errors.Errorf(\"config file not found in %s\", appDir)\n",
           "\t}\n",
           "\n",
           "\tb, err := os.ReadFile(filePath)\n",
           "\tif err != nil {\n",
           "\t\treturn conf, errors.WithStack(err)\n",
           "\t}\n",
           "\n",
           "\tconfigMap := make(map[string]string)\n",
           "\terr = json.Unmarshal(b, &configMap)\n",
           "\tif err != nil {\n",
           "\t\treturn conf, errors.WithStack(err)\n",
           "\t}\n",
           "\tfor key, val := range configMap {\n",
           "\t\t_ = os.Setenv(key, val)\n",
           "\t}\n",
           "\treturn New(), nil\n",
           "}\n">>) >>

\* templates.go 199-221
templateTemplateGo ==
  <<
    Text(<<"\n",
           "// Code generated with https://github.com/mozey/config DO NOT EDIT\n",
           "\n",
           "package config\n",
           "\n",
           "import (\n",
           "\t\"bytes\"\n",
           "\t\"text/template\"\n",
           ")\n",
           "\n">>),
    Range("TemplateKeys", <<
      Text(<<"\n",
             "// Exec">>),
      Field("Key"),
      Text(<<" fills ">>),
      Field("KeyPrefix"),
      Text(<<" with the given params\n",
             "func (c *Config) Exec">>),
      Field("Key"),
      Text(<<"(">>),
      Field("ExplicitParams"),
      Text(<<") string {\n",
             "\tt := template.Must(template.New(\"">>),
      Field("KeyPrivate"),
      Text(<<"\").Parse(c.">>),
      Field("KeyPrivate"),
      Text(<<"))\n",
             "\tb := bytes.Buffer{}\n",
             "\t_ = t.Execute(&b, map[string]interface{}{\n",
             "\t">>),
      Range("Params", <<
        Text(<<"\n",
               "\t\t\"">>),
        Field("Key"),
        Text(<<"\": ">>),
        If("Implicit", <<
          Text(<<"c.">>) >>),
        Field("KeyPrivate"),
        Text(<<",">>) >>),
      Text(<<"\n",
             "\t})\n",
             "\treturn b.String()\n",
             "}\n">>) >>),
    Text(<<"\n">>) >>

\* templates.go 224-294
templateFnGo ==
  <<
    Text(<<"\n",
           "// Code generated with https://github.com/mozey/config DO NOT EDIT\n",
           "\n",
           "package config\n",
           "\n",
           "import (\n",
           "\t\"fmt\"\n",
           "\t\"strconv\"\n",
           "\t\"strings\"\n",
           ")\n",
           "\n",
           "type Fn struct {\n",
           "\tinput string\n",
           "\t// output of the last function,\n",
           "\t// might be useful when chaining multiple functions?\n",
           "\toutput string\n",
           "}\n",
           "\n",
           "// .............................................................................\n",
           "// Methods to set function input\n",
           "\n">>),
    Range("Keys", <<
      Text(<<"\n",
             "// Fn">>),
      Field("Key"),
      Text(<<" sets the function input to the value of ">>),
      Field("KeyPrefix"),
      Text(<<"\n",
             "func (c *Config) Fn">>),
      Field("Key"),
      Text(<<"() *Fn {\n",
             "\tfn := Fn{}\n",
             "\tfn.input = c.">>),
      Field("KeyPrivate"),
      Text(<<"\n",
             "\tfn.output = \"\"\n",
             "\treturn &fn\n",
             "}\n">>) >>),
    Text(<<"\n",
           "\n",
           "// .............................................................................\n",
           "// Type conversion functions\n",
           "\n",
           "// Bool parses a bool from the value or returns an error.\n",
           "// Valid values are \"1\", \"0\", \"true\", or \"false\".\n",
           "// The value is not case-sensitive\n",
           "func (fn *Fn) Bool() (bool, error) {\n",
           "\tv := strings.ToLower(fn.input)\n",
           "\tif v == \"1\" || v == \"true\" {\n",
           "\t\treturn true, nil\n",
           "\t}\n",
           "\tif v == \"0\" || v == \"false\" {\n",
           "\t\treturn false, nil\n",
           "\t}\n",
           "\treturn false, fmt.Errorf(\"invalid value %s\", fn.input)\n",
           "}\n",
           "\n",
           "// Float64 parses a float64 from the value or returns an error\n",
           "func (fn *Fn) Float64() (float64, error) {\n",
           "\tf, err := strconv.ParseFloat(fn.input, 64)\n",
           "\tif err != nil {\n",
           "\t\treturn f, err\n",
           "\t}\n",
           "\treturn f, nil\n",
           "}\n",
           "\n",
           "// Int64 parses an int64 from the value or returns an error\n",
           "func (fn *Fn) Int64() (int64, error) {\n",
           "\ti, err := strconv.ParseInt(fn.input, 10, 64)\n",
           "\tif err != nil {\n",
           "\t\treturn i, err\n",
           "\t}\n",
           "\treturn i, nil\n",
           "}\n",
           "\n",
           "// String returns the input as is\n",
           "func (fn *Fn) String() string {\n",
           "\treturn fn.input\n",
           "}\n">>) >>

\* GetTemplate: the parsed template of the file name
GetTemplate(fileName) ==
  IF fileName = FileNameConfigGo THEN [s |-> templateConfigGo, err |-> ErrNil]
  ELSE IF fileName = FileNameTemplateGo
  THEN [s |-> templateTemplateGo, err |-> ErrNil]
  ELSE IF fileName = FileNameFnGo THEN [s |-> templateFnGo, err |-> ErrNil]
  ELSE [s |-> <<>>, err |-> ErrInvalidFileName]

\* template.Execute: the text of the nodes with dot as the data
RECURSIVE Execute(_, _)
RECURSIVE executeRange(_, _, _)
Execute(nodes, dot) ==
  IF Len(nodes) = 0 THEN <<>>
  ELSE (CASE nodes[1].kind = "text" -> nodes[1].v
          [] nodes[1].kind = "field" -> dot[nodes[1].v]
          [] nodes[1].kind = "if" ->
               IF dot[nodes[1].v] THEN Execute(nodes[1].body, dot) ELSE <<>>
          [] OTHER -> executeRange(nodes[1].body, dot[nodes[1].v], 1))
       \o Execute(Tail(nodes), dot)

\* the body of a range executed on the items from index i on
executeRange(body, items, i) ==
  IF i > Len(items) THEN <<>>
  ELSE Execute(body, items[i]) \o executeRange(body, items, i + 1)

\* strings.ToLower of a word token, without its underscores
LowerWord(t) ==
  CASE t = "APP_" -> "app" [] t = "BAR" -> "bar" [] t = "BAZ" -> "baz"
    [] t = "DIR" -> "dir" [] t = "FOO" -> "foo" [] t = "FilePath" -> "filepath"
    [] t = "X" -> "x" [] t = "_DIR" -> "dir" [] OTHER -> t

\* strings.Title of a lower-case word
TitleWord(t) ==
  CASE t = "app" -> "App" [] t = "bar" -> "Bar" [] t = "baz" -> "Baz"
    [] t = "dir" -> "Dir" [] t = "foo" -> "Foo" [] t = "filepath" -> "Filepath"
    [] t = "x" -> "X" [] t = "config" -> "Config" [] t = "dev" -> "Dev"
    [] t = "env" -> "Env" [] t = "ext1" -> "Ext1" [] t = "ext2" -> "Ext2"
    [] t = "fn" -> "Fn" [] t = "go" -> "Go" [] t = "json" -> "Json"
    [] t = "null" -> "Null" [] t = "prod" -> "Prod" [] t = "sample" -> "Sample"
    [] t = "sh" -> "Sh" [] t = "template" -> "Template" [] t = "tmp" -> "Tmp" [] t = "v1" -> "V1"
    [] t = "v2" -> "V2" [] t = "yaml" -> "Yaml" [] OTHER -> t

\* the token at i begins a word once the underscores are spaces: it is the
\* first token, it starts with an underscore, or the token before it does
\* not end in a letter or digit
StartsWord(key, i) ==
  i = 1 \/ key[i] = "_DIR" \/ ~IsWord(key[i - 1]) \/ key[i - 1] = "APP_"

\* FormatKey from token i on: lower case, then Title, with the spaces
\* that stood for underscores removed
RECURSIVE formatFrom(_, _)
formatFrom(key, i) ==
  IF i > Len(key) THEN <<>>
  ELSE IF key[i] = " " THEN formatFrom(key, i + 1)
  ELSE << IF StartsWord(key, i) THEN TitleWord(LowerWord(key[i]))
          ELSE LowerWord(key[i]) >>
       \o formatFrom(key, i + 1)

FormatKey(prefix, keyWithPrefix) ==
  formatFrom(Replace1(keyWithPrefix, prefix, <<>>), 1)

\* unicode.ToLower of the first character of a token
LowerFirst(t) ==
  CASE t = "App" -> "app" [] t = "Bar" -> "bar" [] t = "Baz" -> "baz"
    [] t = "Dir" -> "dir" [] t = "Foo" -> "foo" [] t = "Filepath" -> "filepath"
    [] t = "X" -> "x" [] t = "Config" -> "config" [] t = "Dev" -> "dev"
    [] t = "Env" -> "env" [] t = "Ext1" -> "ext1" [] t = "Ext2" -> "ext2"
    [] t = "Fn" -> "fn" [] t = "Go" -> "go" [] t = "Json" -> "json"
    [] t = "Null" -> "null" [] t = "Prod" -> "prod" [] t = "Sample" -> "sample"
    [] t = "Sh" -> "sh" [] t = "Template" -> "template" [] t = "Tmp" -> "tmp" [] t = "V1" -> "v1"
    [] t = "V2" -> "v2" [] t = "Yaml" -> "yaml" [] t = "APP_" -> "aPP_"
    [] t = "BAR" -> "bAR" [] t = "BAZ" -> "bAZ" [] t = "DIR" -> "dIR"
    [] t = "FOO" -> "fOO" [] t = "FilePath" -> "filePath" [] OTHER -> t

ToPrivate(str) ==
  IF str = <<>> THEN <<>> ELSE <<LowerFirst(str[1])>> \o Tail(str)

\* the GenerateKey of a key of the config
GenerateKey(prefix, keyWithPrefix) ==
  [KeyPrefix |-> keyWithPrefix,
   KeyPrivate |-> ToPrivate(FormatKey(prefix, keyWithPrefix)),
   Key |-> FormatKey(prefix, keyWithPrefix)]

\* the keys of the config followed by <prefix>DIR
generateKeys(in, c) == c.Keys \o <<in.prefix \o <<"DIR">>>>

\* NewGenerateData once the config is loaded as c. No sequence of tokens of
\* Alphabet spells a key that holds "_TEMPLATE_", so TemplateKeys is empty.
GenerateData(in, c) ==
  [Prefix |-> in.prefix, AppDir |-> in.appDir,
   Keys |-> [i \in 1..Len(generateKeys(in, c)) |->
               GenerateKey(in.prefix, generateKeys(in, c)[i])],
   TemplateKeys |-> <<>>]

\* NewGenerateData once newConf has returned r
generateDataOf(in, r) ==
  IF r.err # ErrNil
  THEN [data |-> [Prefix |-> in.prefix, AppDir |-> in.appDir, Keys |-> <<>>,
                  TemplateKeys |-> <<>>],
        err |-> r.err]
  ELSE [data |-> GenerateData(in, r.c), err |-> ErrNil]

NewGenerateData(in) == generateDataOf(in, newSingleConf(in.appDir, in.env))

\* executeTemplate: the path and the text generated for the file name
executeTemplate(in, fileName, data) ==
  IF GetTemplate(fileName).err # ErrNil
  THEN [path |-> Join(Join(in.appDir, in.generate), fileName), b |-> <<>>,
        err |-> GetTemplate(fileName).err]
  ELSE [path |-> Join(Join(in.appDir, in.generate), fileName),
        b |-> Execute(GetTemplate(fileName).s, data), err |-> ErrNil]

\* a File of the path and text executeTemplate returns
FileOf(t) == [path |-> t.path, b |-> t.b]

\* the three files once the templates are executed as t1, t2 and t3
generatedFiles(g, t1, t2, t3) ==
  IF t1.err # ErrNil THEN [err |-> t1.err, files |-> <<>>]
  ELSE IF Len(g.data.TemplateKeys) > 0 /\ t2.err # ErrNil
  THEN [err |-> t2.err, files |-> <<>>]
  ELSE IF t3.err # ErrNil THEN [err |-> t3.err, files |-> <<>>]
  ELSE [err |-> ErrNil,
        files |-> << FileOf(t1),
                     IF Len(g.data.TemplateKeys) > 0 THEN FileOf(t2)
                     ELSE [path |-> <<>>, b |-> <<>>],
                     FileOf(t3) >>]

\* generateHelpers once NewGenerateData has returned g
generated(in, g) ==
  IF g.err # ErrNil THEN [err |-> g.err, files |-> <<>>]
  ELSE generatedFiles(g, executeTemplate(in, FileNameConfigGo, g.data),
                      executeTemplate(in, FileNameTemplateGo, g.data),
                      executeTemplate(in, FileNameFnGo, g.data))

generateHelpers(in) == generated(in, NewGenerateData(in))

\* Cmd once the function of the command has returned r
cmdOut(cmd, buf, files, exitCode, err) ==
  IF err # ErrNil THEN CmdOut("", <<>>, <<>>, 0, err)
  ELSE CmdOut(cmd, buf, files, exitCode, ErrNil)

\* Cmd, for the requests that are not a CSV, base64, get or set-env request
Cmd(in) ==
  IF in.printVersion THEN {CmdOut(CmdVersion, in.version, <<>>, 0, ErrNil)}
  ELSE IF in.compare # <<>>
  THEN {cmdOut(CmdCompare, r.buf, <<>>, IF Len(r.buf) > 0 THEN 1 ELSE 0, r.err) :
          r \in compareKeys(in)}
  ELSE IF in.generate # <<>>
  THEN {cmdOut(CmdGenerate, <<>>, generateHelpers(in).files, 0,
               generateHelpers(in).err)}
  ELSE {cmdOut(CmdUpdateConfig, <<>>, updateConfig(in).files, 0,
               updateConfig(in).err)}

\* Copy: dst is created with the bytes of src; a missing src and an
\* existing dst are errors that leave the disk as it was
Copy(src, dst) ==
  IF src \notin DOMAIN fs THEN [err |-> ErrNotExist, fs |-> fs]
  ELSE IF dst \in DOMAIN fs THEN [err |-> ErrExist, fs |-> fs]
  ELSE [err |-> ErrNil,
        fs |-> [p \in (DOMAIN fs) \cup {dst} |->
                  IF p = dst THEN fs[src] ELSE fs[p]]]

\* os.MkdirAll(d): d with the ancestors of d
RECURSIVE MkdirAll(_)
MkdirAll(d) == IF Dir(d) = d THEN {d} ELSE {d} \cup MkdirAll(Dir(d))

\* Files.Save from index i on: disk is the directories, the files and the
\* buffer so far
RECURSIVE Save(_, _, _)
Save(files, i, disk) ==
  IF i > Len(files) THEN disk
  ELSE IF files[i].path = <<>> THEN Save(files, i + 1, disk)
  ELSE Save(files, i + 1,
         [dirs |-> disk.dirs \cup MkdirAll(Dir(files[i].path)),
          fs |-> [p \in (DOMAIN disk.fs) \cup {files[i].path} |->
                    IF p = files[i].path THEN files[i].b ELSE disk.fs[p]],
          buf |-> disk.buf \o files[i].path \o <<"\n">>])

\* Files.Print from index i on: the paths and contents are added to buf
RECURSIVE FilesPrint(_, _, _)
FilesPrint(files, i, disk) ==
  IF i > Len(files) THEN disk
  ELSE IF files[i].path = <<>> THEN FilesPrint(files, i + 1, disk)
  ELSE FilesPrint(files, i + 1,
         [disk EXCEPT !.buf = @ \o <<"\n", "/", "/", " ", "FilePath", ":", " ">>
                                \o files[i].path \o files[i].b])

\* mutation: the files are saved whether or not DryRun is set
ProcessAlwaysSave(in, out, disk) ==
  IF out.cmd \in {CmdUpdateConfig, CmdGenerate}
  THEN Save(out.files, 1, disk)
  ELSE disk

\* CmdIn.Process: what is on disk and in out.Buf afterwards; the writes to
\* stdout are not modelled
Process(in, out, disk) ==
  IF out.cmd \in {CmdUpdateConfig, CmdGenerate}
  THEN IF ~in.dryRun THEN Save(out.files, 1, disk)
       ELSE IF out.cmd = CmdUpdateConfig /\ Len(out.files) = 1 THEN disk
       ELSE FilesPrint(out.files, 1, disk)
  ELSE disk

(* ------------------------------------------------------------------ *)
(* The filesystem and the requests made of the engine                 *)
(* ------------------------------------------------------------------ *)

Root == <<"/">>

Tmp == <<"/", "tmp">>

Ext1 == <<"ext1">>

Ext2 == <<"ext2">>

Ext1Dir == Join(Tmp, Ext1)

Ext2Dir == Join(Tmp, Ext2)

Prefix == <<"APP_">>

KeyFoo == <<"APP_", "FOO">>

KeyBar == <<"APP_", "BAR">>

KeyBaz == <<"APP_", "BAZ">>

V1 == <<"v1">>

V2 == <<"v2">>

EnvProd == <<"prod">>

EnvSampleDev == <<"sample", ".", "dev">>

\* KEY=VALUE\n
Line(k, v) == k \o <<"=">> \o v \o <<"\n">>

Blank == <<" ", "\n">>

JsonNull == <<"null">>

JsonObject(k, v) ==
  <<"{">> \o Quote \o k \o Quote \o <<":", " ">> \o Quote \o v \o Quote \o <<"}">>

YamlLine(k, v) == k \o <<":", " ">> \o v \o <<"\n">>

\* bound on the number of files on disk
MaxFiles == 3

\* bound on the number of files on disk when the candidates of one directory
\* are enumerated
MaxCandidates == 2

\* bound on the length of the key list of an update
MaxKeys == 2

\* the file names and contents written in the composition runs
ComposeFiles ==
  { [name |-> FileTypeENV, b |-> Line(KeyFoo, V1)],
    [name |-> FileTypeENV, b |-> Line(KeyBar, V1)],
    [name |-> FileTypeENV, b |-> Line(KeyBaz, V2)],
    [name |-> FileTypeENV, b |-> Line(KeyFoo, V2) \o Line(KeyBar, V2)],
    [name |-> FileTypeENV, b |-> Blank],
    [name |-> <<"config">> \o FileTypeJSON, b |-> JsonNull] }

ComposeDirs == {Root, Tmp, Ext1Dir, Ext2Dir}

\* the candidate names of the envs dev, prod and sample.dev, and one more
CandidateNames ==
  { [name |-> <<".", "env">>, type |-> "env"],
    [name |-> <<".", "env", ".", "dev", ".", "sh">>, type |-> "env"],
    [name |-> <<".", "env", ".", "sh">>, type |-> "env"],
    [name |-> <<"config", ".", "dev", ".", "json">>, type |-> "json"],
    [name |-> <<"config", ".", "json">>, type |-> "json"],
    [name |-> <<"config", ".", "dev", ".", "yaml">>, type |-> "yaml"],
    [name |-> <<"config", ".", "yaml">>, type |-> "yaml"],
    [name |-> <<".", "env", ".", "prod", ".", "sh">>, type |-> "env"],
    [name |-> <<"config", ".", "prod", ".", "json">>, type |-> "json"],
    [name |-> <<"config", ".", "prod", ".", "yaml">>, type |-> "yaml"],
    [name |-> <<"sample", ".", "env", ".", "dev", ".", "sh">>, type |-> "env"],
    [name |-> <<"sample", ".", "config", ".", "dev", ".", "json">>, type |-> "json"],
    [name |-> <<"sample", ".", "config", ".", "dev", ".", "yaml">>, type |-> "yaml"],
    [name |-> <<"config", ".", "sample", ".", "dev", ".", "json">>, type |-> "json"] }

\* an empty file, a blank file, and a file the codec of the type accepts
CandidateContents(type) ==
  {<<>>, Blank,
   IF type = "env" THEN Line(KeyFoo, V1)
   ELSE IF type = "json" THEN JsonObject(KeyFoo, V1)
   ELSE YamlLine(KeyFoo, V1)}

Envs == {EnvDev, EnvProd, EnvSampleDev, <<>>}

\* a directory that does not exist
NoDir == <<"/", "prod">>

\* sequences over S of length at most n
BSeq(S, n) == UNION {[1..k -> S] : k \in 0..n}

UpdateKeys == {KeyFoo, KeyBaz, <<"FOO">>}

NoCall ==
  [op |-> "none", appDir |-> <<>>, env |-> <<>>, prefix |-> <<>>,
   extend |-> <<>>, merge |-> FALSE, keys |-> <<>>, values |-> <<>>,
   del |-> FALSE, format |-> <<>>, samples |-> FALSE, b |-> <<>>,
   all |-> FALSE, compare |-> <<>>, generate |-> <<>>, dryRun |-> FALSE,
   printVersion |-> FALSE, version |-> <<>>]

NoResult == Result(<<>>, NewConf, ErrNil, NewConf, <<>>)

EmptyFS == [p \in {} |-> <<>>]

Init ==
  /\ dirs = {Root, Tmp, Ext1Dir}
  /\ fs = EmptyFS
  /\ call = NoCall
  /\ ret = NoResult

\* os.Mkdir
Mkdir(d) ==
  /\ call.op = "none"
  /\ d \notin dirs
  /\ Dir(d) \in dirs
  /\ dirs' = dirs \cup {d}
  /\ UNCHANGED <<fs, call, ret>>

\* os.WriteFile: the file is created, or truncated and rewritten when it
\* exists; max bounds the number of files on disk
WriteFile(d, name, b, max) ==
  /\ call.op = "none"
  /\ d \in dirs
  /\ Cardinality((DOMAIN fs) \cup {Join(d, name)}) <= max
  /\ fs' = [p \in (DOMAIN fs) \cup {Join(d, name)} |->
              IF p = Join(d, name) THEN b ELSE fs[p]]
  /\ UNCHANGED <<dirs, call, ret>>

WriteConfig ==
  \E d \in ComposeDirs, f \in ComposeFiles : WriteFile(d, f.name, f.b, MaxFiles)

WriteCandidate ==
  \E f \in CandidateNames : \E b \in CandidateContents(f.type) :
    WriteFile(Tmp, f.name, b, MaxCandidates)

\* what a call of ReadConfigFile hands back
ReadResult(appDir, r) ==
  [Result(<<r.configPath>>, NewConf, r.err, NewConf, <<appDir>>)
     EXCEPT !.b = r.b]

\* what a call of loadConf hands back
LoadResult(appDir, r) == Result(<<r.configPath>>, r.c, r.err, r.c, <<appDir>>)

CallReadConfigFile ==
  \E appDir \in {Tmp, NoDir}, env \in Envs :
    /\ call.op = "none"
    /\ call' = [NoCall EXCEPT !.op = "ReadConfigFile", !.appDir = appDir,
                              !.env = env]
    /\ ret' = ReadResult(appDir, ReadConfigFile(appDir, env))
    /\ UNCHANGED <<dirs, fs>>

CallLoadConf ==
  \E appDir \in {Tmp, NoDir}, env \in Envs :
    /\ call.op = "none"
    /\ call' = [NoCall EXCEPT !.op = "loadConf", !.appDir = appDir, !.env = env]
    /\ ret' = LoadResult(appDir, loadConf(appDir, env))
    /\ UNCHANGED <<dirs, fs>>

CallNewConf ==
  \E appDir \in {Tmp, Ext1Dir}, extendList \in BSeq({Ext1, Ext2}, 2),
     merge \in BOOLEAN :
    /\ call.op = "none"
    /\ call' = [NoCall EXCEPT !.op = "newConf", !.appDir = appDir,
                              !.env = EnvDev, !.extend = extendList,
                              !.merge = merge]
    /\ ret' \in newConf(<<>>, appDir, EnvDev, extendList, merge)
    /\ UNCHANGED <<dirs, fs>>

CallRefreshConfigByEnv ==
  \E keys \in BSeq(UpdateKeys, MaxKeys), values \in {<<V1>>, <<V1, V2>>},
     del \in BOOLEAN :
    /\ call.op = "none"
    /\ del => values = <<V1>>
    /\ call' = [NoCall EXCEPT !.op = "refreshConfigByEnv", !.appDir = Tmp,
                              !.env = EnvDev, !.prefix = Prefix, !.keys = keys,
                              !.values = values, !.del = del]
    /\ ret' = refreshConfigByEnv(Tmp, Prefix, EnvDev, keys, values, del, <<>>)
    /\ UNCHANGED <<dirs, fs>>

Next ==
  \/ Mkdir(Ext2Dir)
  \/ WriteConfig
  \/ CallNewConf
  \/ CallRefreshConfigByEnv

Spec == Init /\ [][Next]_vars

NextLoad ==
  \/ WriteCandidate
  \/ CallReadConfigFile
  \/ CallLoadConf

SpecLoad == Init /\ [][NextLoad]_vars

(* ------------------------------------------------------------------ *)
(* Parent search over deeper and relative directories                 *)
(* ------------------------------------------------------------------ *)

DeepDir == Join(Ext1Dir, Ext2)

RelTmp == <<"tmp">>

RelExt1Dir == Join(RelTmp, Ext1)

Dot == <<".">>

MergeDirs == {Root, Tmp, Ext1Dir, DeepDir, Dot, RelTmp, RelExt1Dir}

\* bound on the number of files on disk in the parent search runs
MaxMergeFiles == 3

MergeFiles ==
  { [name |-> FileTypeENV, b |-> Line(KeyFoo, V1)],
    [name |-> FileTypeENV, b |-> Line(KeyBar, V1)],
    [name |-> FileTypeENV, b |-> Blank],
    [name |-> <<"config">> \o FileTypeJSON, b |-> JsonNull] }

InitMerge ==
  /\ dirs = MergeDirs
  /\ fs = EmptyFS
  /\ call = NoCall
  /\ ret = NoResult

WriteMergeFile ==
  \E d \in MergeDirs, f \in MergeFiles : WriteFile(d, f.name, f.b, MaxMergeFiles)

CallMerge ==
  \E appDir \in MergeDirs :
    /\ call.op = "none"
    /\ call' = [NoCall EXCEPT !.op = "newConf", !.appDir = appDir,
                              !.env = EnvDev, !.merge = TRUE]
    /\ ret' \in newConf(<<>>, appDir, EnvDev, <<>>, TRUE)
    /\ UNCHANGED <<dirs, fs>>

NextMerge ==
  \/ WriteMergeFile
  \/ CallMerge

SpecMerge == InitMerge /\ [][NextMerge]_vars

(* ------------------------------------------------------------------ *)
(* Extensions declared by the config itself                           *)
(* ------------------------------------------------------------------ *)

\* bound on the number of files on disk in the self-declared extension runs
MaxSelfFiles == 3

SelfDirs == {Tmp, Ext1Dir, Ext2Dir, DeepDir}

\* main configs: with and without the extensions-list key APP_X and the
\* extensions-dir key APP_X_DIR
SelfMainFiles ==
  { Line(KeyFoo, V1) \o Line(KeyPrefixExtensions(Prefix), Ext1 \o <<",">> \o Ext2)
      \o Line(KeyExtensionsDir(Prefix), Dot),
    Line(KeyPrefixExtensions(Prefix), Ext1) \o Line(KeyExtensionsDir(Prefix), Dot),
    Line(KeyPrefixExtensions(Prefix), Ext2) \o Line(KeyExtensionsDir(Prefix), Ext1),
    Line(KeyPrefixExtensions(Prefix), Ext1 \o <<",">> \o Ext2),
    Line(KeyFoo, V1) \o Line(KeyExtensionsDir(Prefix), Dot),
    Line(KeyFoo, V1) }

SelfExtFiles ==
  { [name |-> FileTypeENV, b |-> Line(KeyBar, V1)],
    [name |-> FileTypeENV, b |-> Line(KeyBaz, V2)],
    [name |-> FileTypeENV, b |-> Line(KeyFoo, V2)],
    [name |-> <<"config">> \o FileTypeJSON, b |-> JsonNull] }

InitSelf ==
  /\ dirs = SelfDirs \cup {Root}
  /\ fs = EmptyFS
  /\ call = NoCall
  /\ ret = NoResult

WriteSelfMain ==
  \E b \in SelfMainFiles : WriteFile(Tmp, FileTypeENV, b, MaxSelfFiles)

WriteSelfExt ==
  \E d \in SelfDirs \ {Tmp}, f \in SelfExtFiles :
    WriteFile(d, f.name, f.b, MaxSelfFiles)

\* newConf with the prefix APP_ and neither an extend list nor the merge flag
CallSelf ==
  /\ call.op = "none"
  /\ call' = [NoCall EXCEPT !.op = "newConf", !.appDir = Tmp, !.env = EnvDev,
                            !.prefix = Prefix]
  /\ ret' \in newConf(Prefix, Tmp, EnvDev, <<>>, FALSE)
  /\ UNCHANGED <<dirs, fs>>

NextSelf ==
  \/ WriteSelfMain
  \/ WriteSelfExt
  \/ CallSelf

SpecSelf == InitSelf /\ [][NextSelf]_vars

(* ------------------------------------------------------------------ *)
(* Environment enumeration over the files of one directory            *)
(* ------------------------------------------------------------------ *)

\* bound on the number of files on disk in the enumeration runs
MaxEnvFiles == 3

EnvDevProd == <<"dev", "-", "prod">>

EnvFileNames ==
  { <<"config", ".", "dev", ".", "json">>,
    <<"config", ".", "prod", ".", "json">>,
    <<"config", ".">> \o EnvDevProd \o <<".", "json">>,
    <<"sample", ".", "config", ".", "dev", ".", "json">>,
    <<"sample", ".", "config", ".", "prod", ".", "json">>,
    <<"sample", ".", "config", ".">> \o EnvDevProd \o <<".", "json">>,
    <<"config", ".", "dev", ".", "json", ".", "json">>,
    <<"config", ".", "config", ".", "dev", ".", "json">>,
    <<"config", ".", "-", "dev", ".", "json">>,
    <<"config", ".", "json">>,
    <<"config", ".", "dev", ".", "yaml">> }

WriteEnvFile ==
  \E name \in EnvFileNames : WriteFile(Tmp, name, <<"{", "}">>, MaxEnvFiles)

\* what a call of getEnvs hands back
EnvsResult(r) == [NoResult EXCEPT !.envs = r.envs, !.err = r.err]

CallGetEnvs ==
  \E appDir \in {Tmp, NoDir}, samples \in BOOLEAN :
    /\ call.op = "none"
    /\ call' = [NoCall EXCEPT !.op = "getEnvs", !.appDir = appDir,
                              !.samples = samples]
    /\ ret' = EnvsResult(getEnvs(appDir, samples))
    /\ UNCHANGED <<dirs, fs>>

NextEnvs == WriteEnvFile \/ CallGetEnvs

SpecEnvs == Init /\ [][NextEnvs]_vars

(* ------------------------------------------------------------------ *)
(* Path resolution, and loading from directories that may not exist   *)
(* ------------------------------------------------------------------ *)

\* bound on the number of files on disk in the path resolution runs
MaxPathFiles == 2

PathDirs == {Root, Tmp, Ext2Dir, NoDir}

PathEnvs ==
  { EnvDev, EnvProd, EnvSampleDev, <<>>,
    <<" ", "dev", " ">>, <<" ">>, <<" ", "sample", ".", "dev">>,
    <<"sample", ".">>, <<"sample", ".", "sample", ".", "dev">>,
    <<"dev", ".", "sample", ".", "prod">> }

PathFiles ==
  { [dir |-> Tmp, b |-> Line(KeyFoo, V1)],
    [dir |-> Ext1Dir, b |-> Line(KeyBar, V1)],
    [dir |-> Ext2Dir, b |-> Line(KeyBaz, V2)] }

WritePathFile ==
  \E f \in PathFiles : WriteFile(f.dir, FileTypeENV, f.b, MaxPathFiles)

\* what a call of getConfigFilePath hands back
PathResult(r) == [NoResult EXCEPT !.configPaths = <<r.path>>, !.err = r.err]

CallGetConfigFilePath ==
  \E appDir \in PathDirs, env \in PathEnvs, fileType \in Formats :
    /\ call.op = "none"
    /\ call' = [NoCall EXCEPT !.op = "getConfigFilePath", !.appDir = appDir,
                              !.env = env, !.format = fileType]
    /\ ret' = PathResult(getConfigFilePath(appDir, env, fileType))
    /\ UNCHANGED <<dirs, fs>>

CallNewConfAt ==
  \E appDir \in PathDirs \ {Root}, env \in {EnvDev, EnvProd},
     extendList \in {<<>>, <<Ext1>>, <<Ext2>>} :
    /\ call.op = "none"
    /\ call' = [NoCall EXCEPT !.op = "newConf", !.appDir = appDir,
                              !.env = env, !.extend = extendList]
    /\ ret' \in newConf(<<>>, appDir, env, extendList, FALSE)
    /\ UNCHANGED <<dirs, fs>>

NextPath ==
  \/ Mkdir(Ext2Dir)
  \/ WritePathFile
  \/ CallGetConfigFilePath
  \/ CallNewConfAt

SpecPath == Init /\ [][NextPath]_vars

(* ------------------------------------------------------------------ *)
(* The line codec applied to bounded maps and file contents           *)
(* ------------------------------------------------------------------ *)

\* bound on the number of keys of an encoded map
MaxCodecKeys == 2

\* bound on the number of lines of a decoded file
MaxCodecLines == 2

CodecKeys == {KeyFoo, KeyBar, <<"FOO">>}

\* values without newline and without double quote
CodecValues ==
  { V1, <<>>, <<" ", "v1">>, <<"v1", " ">>, <<"v1", " ", "v2">>,
    <<"v1", "=", "v2">>, <<"#">> }

CodecMaps ==
  UNION {[ks -> CodecValues] :
           ks \in {x \in SUBSET CodecKeys : Cardinality(x) <= MaxCodecKeys}}

CodecLines ==
  { Line(KeyFoo, V1),
    Line(KeyFoo, Quote \o V1 \o Quote),
    Line(KeyBar, Quote \o Quote),
    Line(KeyFoo, Quote \o Quote \o V1 \o Quote \o Quote),
    Line(KeyBar, V1 \o <<" ">> \o Quote \o V2 \o Quote),
    <<" ">> \o KeyBar \o <<" ", "=", " ">> \o V2 \o <<" ", "\n">>,
    <<"#", " ">> \o V1 \o <<"\n">>,
    <<"\n">> }

RECURSIVE concat(_)
concat(ls) == IF ls = <<>> THEN <<>> ELSE ls[1] \o concat(Tail(ls))

CodecFiles == {concat(ls) : ls \in BSeq(CodecLines, MaxCodecLines)}

\* the store of a map: c.Map = m; c.refreshKeys()
confOf(m) == refreshKeys([Map |-> m, MapNil |-> FALSE, Keys |-> <<>>])

\* UnmarshalENV of the bytes an encoding gave, for the input store main
codecDecode(main, e) ==
  [Result(<<>>, confOf(UnmarshalENV(e.b).m), e.err, main, <<>>)
     EXCEPT !.b = e.b]

\* UnmarshalENV(MarshalENV(c))
codecRoundTrip(c) == codecDecode(c, MarshalENV(c))

InitCodec ==
  /\ dirs = {}
  /\ fs = EmptyFS
  /\ call = NoCall
  /\ ret = NoResult

CallEncodeDecode ==
  \E m \in CodecMaps :
    /\ call.op = "none"
    /\ call' = [NoCall EXCEPT !.op = "MarshalENV",
                              !.keys = confOf(m).Keys,
                              !.values = [i \in 1..Len(confOf(m).Keys) |->
                                            m[confOf(m).Keys[i]]]]
    /\ ret' = codecRoundTrip(confOf(m))
    /\ UNCHANGED <<dirs, fs>>

CallDecodeEncodeDecode ==
  \E f \in CodecFiles :
    /\ call.op = "none"
    /\ call' = [NoCall EXCEPT !.op = "UnmarshalENV", !.b = f]
    /\ ret' = codecRoundTrip(confOf(UnmarshalENV(f).m))
    /\ UNCHANGED <<dirs, fs>>

NextCodec == CallEncodeDecode \/ CallDecodeEncodeDecode

SpecCodec == InitCodec /\ [][NextCodec]_vars

(* ------------------------------------------------------------------ *)
(* Commands run on the files of one directory                         *)
(* ------------------------------------------------------------------ *)

\* bound on the number of files written before a command is run
MaxCmdFiles == 2

CmdFiles ==
  { [name |-> <<"config", ".", "dev", ".", "json">>, b |-> JsonObject(KeyFoo, V1)],
    [name |-> <<"config", ".", "prod", ".", "json">>, b |-> JsonObject(KeyBar, V1)],
    [name |-> <<"sample", ".", "config", ".", "dev", ".", "json">>,
     b |-> JsonObject(KeyFoo, V2)],
    [name |-> <<".", "env", ".", "prod", ".", "sh">>, b |-> Line(KeyBaz, V2)],
    [name |-> <<".", "env">>, b |-> Line(KeyBar, V2)] }

WriteCmdFile ==
  \E f \in CmdFiles : WriteFile(Tmp, f.name, f.b, MaxCmdFiles)

\* a file of the directory is copied to another name before a command is run
CopyCmdFile ==
  \E f \in CmdFiles, g \in CmdFiles :
    /\ call.op = "none"
    /\ Cardinality((DOMAIN fs) \cup {Join(Tmp, g.name)}) <= MaxCmdFiles
    /\ fs' = Copy(Join(Tmp, f.name), Join(Tmp, g.name)).fs
    /\ ret' = [NoResult EXCEPT
                 !.err = Copy(Join(Tmp, f.name), Join(Tmp, g.name)).err]
    /\ UNCHANGED <<dirs, call>>

CmdEnvs == {EnvDev, EnvProd, EnvSampleDev, <<"*">>, <<"sample", ".", "*">>}

CmdFormats == {<<>>, <<"env">>, <<"sh">>, <<"json">>, <<"yaml">>}

CmdBase == [NoCall EXCEPT !.op = "Cmd", !.appDir = Tmp, !.prefix = Prefix,
                          !.env = EnvDev]

\* the update-config requests
UpdateRequests ==
  {[CmdBase EXCEPT !.env = e, !.format = f, !.keys = k, !.values = <<V2>>,
                   !.dryRun = d] :
     e \in CmdEnvs, f \in CmdFormats, k \in {<<>>, <<KeyFoo>>},
     d \in BOOLEAN}
  \cup {[CmdBase EXCEPT !.all = TRUE, !.format = f, !.keys = <<KeyFoo>>,
                        !.values = <<V2>>, !.dryRun = d] :
           f \in CmdFormats, d \in BOOLEAN}

\* the requests Cmd is run on: version, compare, generate, update-config
CmdRequests ==
  {r \in UpdateRequests : Len(r.keys) > 0 \/ r.format # <<>>}
  \cup {[CmdBase EXCEPT !.env = e, !.compare = c] :
           e \in {EnvDev, EnvProd}, c \in {EnvDev, EnvProd}}
  \cup {[CmdBase EXCEPT !.generate = <<"go">>, !.dryRun = d] : d \in BOOLEAN}
  \cup {[CmdBase EXCEPT !.printVersion = TRUE]}

\* what Cmd hands back
CmdResult(out) ==
  [NoResult EXCEPT !.cmd = out.cmd, !.b = out.buf, !.files = out.files,
                   !.exitCode = out.exitCode, !.err = out.err]

CallCmd ==
  \E in \in CmdRequests :
    /\ call.op = "none"
    /\ call' = in
    /\ ret' \in {CmdResult(out) : out \in Cmd(in)}
    /\ UNCHANGED <<dirs, fs>>

\* the state after Process has left disk
Processed(disk) ==
  /\ dirs' = disk.dirs
  /\ fs' = disk.fs
  /\ ret' = [ret EXCEPT !.b = disk.buf]
  /\ call' = [call EXCEPT !.op = "Process"]

CallProcess ==
  /\ call.op = "Cmd"
  /\ ret.err = ErrNil
  /\ Processed(Process(call, ret, [dirs |-> dirs, fs |-> fs, buf |-> ret.b]))

NextCmd == WriteCmdFile \/ CopyCmdFile \/ CallCmd \/ CallProcess

SpecCmd == Init /\ [][NextCmd]_vars

(* ------------------------------------------------------------------ *)
(* Properties of the loader (SpecLoad)                                *)
(* ------------------------------------------------------------------ *)

C1_DevNames ==
  << <<".", "env">>,
     <<".", "env", ".", "dev", ".", "sh">>,
     <<".", "env", ".", "sh">>,
     <<"config", ".", "dev", ".", "json">>,
     <<"config", ".", "json">>,
     <<"config", ".", "dev", ".", "yaml">>,
     <<"config", ".", "yaml">> >>

C1_EnvNames(E) ==
  << <<".", "env", ".">> \o E \o <<".", "sh">>,
     <<"config", ".">> \o E \o <<".", "json">>,
     <<"config", ".">> \o E \o <<".", "yaml">> >>

C1_SampleNames(E) ==
  << <<"sample", ".", "env", ".">> \o E \o <<".", "sh">>,
     <<"sample", ".", "config", ".">> \o E \o <<".", "json">>,
     <<"sample", ".", "config", ".">> \o E \o <<".", "yaml">> >>

C1_In(appDir, names) == [i \in 1..Len(names) |-> appDir \o <<"/">> \o names[i]]

\* the call selected the first of cands that is on disk, or found none
C1_Selects(cands) ==
  LET hits == {i \in 1..Len(cands) : cands[i] \in DOMAIN fs}
  IN IF hits = {} THEN ret.err = ErrConfigFileNotFound
     ELSE /\ ret.err \in {ErrNil, ErrEmptyFile}
          /\ ret.configPaths[1] = cands[CHOOSE i \in hits : \A j \in hits : i <= j]

\* C1 as stated: ReadConfigFile selects the first existing candidate of the
\* list .env, .env.dev.sh, .env.sh, config.dev.json, config.json,
\* config.dev.yaml, config.yaml for env dev and of .env.E.sh, config.E.json,
\* config.E.yaml for every other env E, and fails with "config file not
\* found" when none exists.
C1_Original ==
  (call.op = "ReadConfigFile" /\ call.appDir \in dirs /\ call.env # <<>>) =>
    C1_Selects(C1_In(call.appDir,
                     IF call.env = EnvDev THEN C1_DevNames
                     ELSE C1_EnvNames(call.env)))

\* C1 amended: in an existing directory the candidates are the dev list for
\* env dev, sample.env.E.sh, sample.config.E.json, sample.config.E.yaml for
\* an env sample.E, and .env.E.sh, config.E.json, config.E.yaml for any
\* other non-empty env E; the first that exists is selected, a missing one
\* is skipped, and with none the load fails with "config file not found".
C1_Amended ==
  (call.op = "ReadConfigFile" /\ call.appDir \in dirs /\ call.env # <<>>) =>
    C1_Selects(C1_In(call.appDir,
                     IF call.env = EnvDev THEN C1_DevNames
                     ELSE IF HasPrefix(call.env, <<"sample", ".">>)
                     THEN C1_SampleNames(SubSeq(call.env, 3, Len(call.env)))
                     ELSE C1_EnvNames(call.env)))

\* .env and config.json both present for dev, and .env was selected
C1_Witness ==
  /\ call.op = "ReadConfigFile"
  /\ call.env = EnvDev
  /\ (Tmp \o <<"/", ".", "env">>) \in DOMAIN fs
  /\ (Tmp \o <<"/", "config", ".", "json">>) \in DOMAIN fs
  /\ ret.err = ErrNil
  /\ ret.configPaths[1] = Tmp \o <<"/", ".", "env">>

C9_IsBlank(b) == \A i \in 1..Len(b) : b[i] \in {" ", "\n"}

\* the candidate paths of the request, in precedence order
C9_Candidates == getConfigFilePaths(call.appDir, call.env).paths

\* candidate i is on disk and no candidate before it is
C9_IsSelected(i) ==
  /\ C9_Candidates[i] \in DOMAIN fs
  /\ \A j \in 1..(i - 1) : C9_Candidates[j] \notin DOMAIN fs

\* C9: when the selected candidate (the first that exists) is empty or holds
\* only white space, loadConf fails with the "empty file" error, and no
\* successful load comes from such a file.
C9_EmptyFileRejected ==
  (call.op = "loadConf" /\ call.appDir \in dirs) =>
    /\ \A i \in 1..Len(C9_Candidates) :
         (C9_IsSelected(i) /\ C9_IsBlank(fs[C9_Candidates[i]])) =>
           (ret.err = ErrEmptyFile /\ ret.c = NewConf)
    /\ ret.err = ErrNil => ~C9_IsBlank(fs[ret.configPaths[1]])

\* a file holding only white space was selected and rejected
C9_Witness ==
  /\ call.op = "loadConf"
  /\ ret.err = ErrEmptyFile
  /\ ret.configPaths[1] \in DOMAIN fs
  /\ fs[ret.configPaths[1]] = Blank

\* candidate i is the first that exists and is empty, and a later one exists
\* and is not empty
C10_EmptyBefore(i) ==
  /\ C9_IsSelected(i)
  /\ C9_IsBlank(fs[C9_Candidates[i]])
  /\ \E j \in (i + 1)..Len(C9_Candidates) :
       /\ C9_Candidates[j] \in DOMAIN fs
       /\ ~C9_IsBlank(fs[C9_Candidates[j]])

C10_Case ==
  /\ call.op = "loadConf"
  /\ call.appDir \in dirs
  /\ \E i \in 1..Len(C9_Candidates) : C10_EmptyBefore(i)

\* C10 as stated: with a higher-precedence candidate that exists but is
\* empty and a lower-precedence candidate that exists and is not, the
\* lower-precedence file is the one loaded.
C10_Original ==
  C10_Case =>
    /\ ret.err = ErrNil
    /\ ~C9_IsBlank(fs[ret.configPaths[1]])

\* C10 amended: candidates are tried in precedence order until one exists;
\* with a higher-precedence candidate that exists but is empty, the load
\* fails with the "empty file" error on that file even when a lower-precedence
\* candidate exists and is non-empty, and the lower one is not loaded.
C10_Amended ==
  (call.op = "loadConf" /\ call.appDir \in dirs) =>
    \A i \in 1..Len(C9_Candidates) :
      C10_EmptyBefore(i) =>
        /\ ret.err = ErrEmptyFile
        /\ ret.configPaths[1] = C9_Candidates[i]
        /\ ret.c = NewConf

C10_Witness == C10_Case /\ ret.err = ErrEmptyFile /\ call.env = EnvDev

(* ------------------------------------------------------------------ *)
(* Properties of the composition engine (Spec, SpecMerge)             *)
(* ------------------------------------------------------------------ *)

Loads(d) == loadConf(d, call.env).err = ErrNil

StoreOf(d) == loadConf(d, call.env).c

KeysOf(d) == DOMAIN StoreOf(d).Map

\* the directories an Extend request composes, in list order
ExtendSources ==
  <<call.appDir>> \o [i \in 1..Len(call.extend) |-> Join(call.appDir, call.extend[i])]

\* the proper ancestors of d, nearest first
RECURSIVE Ancestors(_)
Ancestors(d) ==
  IF Dir(d) = d THEN <<>> ELSE <<Dir(d)>> \o Ancestors(Dir(d))

\* the entries of all the directories of ds together
UnionOf(ds) ==
  [k \in UNION {KeysOf(ds[i]) : i \in 1..Len(ds)} |->
     StoreOf(ds[CHOOSE i \in 1..Len(ds) : k \in KeysOf(ds[i])]).Map[k]]

Disjoint(ds) ==
  \A i, j \in 1..Len(ds) : i # j => KeysOf(ds[i]) \cap KeysOf(ds[j]) = {}

IsExtend == call.op = "newConf" /\ Len(call.extend) > 0 /\ ~call.merge

IsMerge == call.op = "newConf" /\ call.extend = <<>> /\ call.merge

\* the failure names a key that two of the directories of ds hold
NamesSharedKey(ds) ==
  /\ ret.err.kind = "duplicate key"
  /\ \E i, j \in 1..Len(ds) :
       i # j /\ ret.err.key \in KeysOf(ds[i]) \cap KeysOf(ds[j])

\* C2 as stated: when a key occurs in two sources of an Extend or Merge
\* composition the resolution fails with the duplicate-key error naming a
\* shared key, and no value is overridden.
C2_Original ==
  /\ (IsExtend /\ (\A i \in 1..Len(ExtendSources) : Loads(ExtendSources[i]))
        /\ ~Disjoint(ExtendSources))
       => NamesSharedKey(ExtendSources)
  /\ (IsMerge /\ Loads(call.appDir) /\ ret.err # ErrParentNotFound
        /\ ~Disjoint(<<ret.loaded[Len(ret.loaded)], call.appDir>>))
       => NamesSharedKey(<<ret.loaded[Len(ret.loaded)], call.appDir>>)

\* C3 as stated: with pairwise disjoint keys in the main store and all the
\* listed extension stores, Extend succeeds with the union of the entries,
\* loads each extension from root/<ext>, and the resolved paths are the main
\* path followed by one path per extension in list order.
C3_Original ==
  (IsExtend /\ (\A i \in 1..Len(ExtendSources) : Loads(ExtendSources[i]))
     /\ Disjoint(ExtendSources))
    => /\ ret.err = ErrNil
       /\ ret.c.Map = UnionOf(ExtendSources)
       /\ ret.loaded = ExtendSources
       /\ ret.configPaths =
            [i \in 1..Len(ExtendSources) |->
               loadConf(ExtendSources[i], call.env).configPath]

\* the nearest proper ancestor of the request directory that loads, if any
LoadableAncestors ==
  {i \in 1..Len(Ancestors(call.appDir)) : Loads(Ancestors(call.appDir)[i])}

NearestParent ==
  Ancestors(call.appDir)[CHOOSE i \in LoadableAncestors :
                           \A j \in LoadableAncestors : i <= j]

\* C4 as stated: Merge takes as parent the nearest proper ancestor directory
\* from which a store loads; with disjoint keys the result is the parent's
\* entries plus the request directory's, and the resolved paths are
\* [parent path, request directory's path].
C4_Original ==
  (IsMerge /\ Loads(call.appDir) /\ LoadableAncestors # {}
     /\ Disjoint(<<NearestParent, call.appDir>>))
    => /\ ret.err = ErrNil
       /\ ret.c.Map = UnionOf(<<NearestParent, call.appDir>>)
       /\ ret.configPaths = <<loadConf(NearestParent, call.env).configPath,
                              loadConf(call.appDir, call.env).configPath>>

\* the parent search of Merge ends after at most one load per proper
\* ancestor of the request directory, or one load for a request directory
\* that has none
C5_Terminates ==
  (IsMerge /\ Loads(call.appDir))
    => /\ ret.err # ErrDiverged
       /\ Len(ret.loaded) <= 2 + Len(Ancestors(call.appDir))

\* C5 as stated: for every request directory the parent search of Merge
\* ends, and when no proper ancestor of the request directory yields a store
\* the resolution fails with ErrParentNotFound.
C5_Original ==
  /\ C5_Terminates
  /\ (IsMerge /\ Loads(call.appDir) /\ LoadableAncestors = {})
       => ret.err = ErrParentNotFound

IsExtendAndMerge == call.op = "newConf" /\ Len(call.extend) > 0 /\ call.merge

\* C6 as stated: for every filesystem state a request with both an extend
\* list and the merge flag fails with ErrNotImplemented and loads no
\* extension or parent directory.
C6_Original ==
  IsExtendAndMerge => (ret.err = ErrNotImplemented /\ ret.loaded = <<call.appDir>>)

\* C6 amended: a request with both an extend list and the merge flag fails
\* and loads no extension or parent directory; the error is ErrNotImplemented
\* whenever the main config of the request directory loads, and the error
\* of that load otherwise.
C6_Amended ==
  IsExtendAndMerge =>
    /\ ret.loaded = <<call.appDir>>
    /\ ret.err = IF Loads(call.appDir) THEN ErrNotImplemented
                 ELSE loadConf(call.appDir, call.env).err

\* rejected although main and the listed extension both have a config
C6_Witness ==
  /\ IsExtendAndMerge
  /\ ret.err = ErrNotImplemented
  /\ \A i \in 1..Len(ExtendSources) : Loads(ExtendSources[i])

\* C7 as stated: when an Extend or Merge composition fails, the main store
\* handed to it holds exactly the entries it had before.
C7_Original ==
  ((IsExtend \/ IsMerge) /\ Loads(call.appDir) /\ ret.err # ErrNil)
    => ret.main.Map = StoreOf(call.appDir).Map

\* ks lists the keys of m in ascending order, each once
IsSortedKeysOf(ks, m) ==
  /\ {ks[i] : i \in 1..Len(ks)} = DOMAIN m
  /\ \A i, j \in 1..Len(ks) : i < j => strLess(ks[i], ks[j])

\* C8: in every store returned successfully by the constructors and in the
\* store refreshConfigByEnv serialises, Keys is the ascending sort of the
\* keys of Map.
C8_KeysSorted ==
  (call.op \in {"newConf", "refreshConfigByEnv"} /\ ret.err = ErrNil)
    => IsSortedKeysOf(ret.c.Keys, ret.c.Map)

\* an extended store of three keys from three files
C8_Witness ==
  /\ IsExtend
  /\ ret.err = ErrNil
  /\ Len(call.extend) = 2
  /\ ret.c.Keys = <<KeyBar, KeyBaz, KeyFoo>>

(* ------------------------------------------------------------------ *)
(* Environment-less files (SpecLoad)                                  *)
(* ------------------------------------------------------------------ *)

\* the environment-less file of each file type, in the request directory
C11_EnvLess(fileType) ==
  call.appDir \o <<"/">> \o
    (IF fileType = FileTypeENV THEN <<".", "env">>
     ELSE IF fileType = FileTypeSH THEN <<".", "env", ".", "sh">>
     ELSE <<"config">> \o fileType)

\* the dev-named file of a file type other than .env
C11_DevNamed(fileType) ==
  call.appDir \o <<"/">> \o
    (IF fileType = FileTypeSH THEN <<".", "env", ".", "dev", ".", "sh">>
     ELSE <<"config", ".", "dev">> \o fileType)

C11_IsLoad ==
  call.op \in {"ReadConfigFile", "loadConf"} /\ call.appDir \in dirs

\* the call stopped at a candidate that is on disk
C11_Found == ret.err # ErrConfigFileNotFound

\* for env dev: a directory holding only environment-less files yields one
\* of them, and the environment-less file of a type is not the one selected
\* when the dev-named file of that type is on disk
C11_Dev ==
  (C11_IsLoad /\ call.env = EnvDev) =>
    /\ (DOMAIN fs # {} /\ DOMAIN fs \subseteq {C11_EnvLess(t) : t \in Formats})
         => (C11_Found /\ ret.configPaths[1] \in DOMAIN fs)
    /\ \A t \in Formats \ {FileTypeENV} :
         (C11_Found /\ C11_DevNamed(t) \in DOMAIN fs)
           => ret.configPaths[1] # C11_EnvLess(t)

\* C11 as stated: environment-less files stand in for env dev, after the
\* dev-named file of the same format, and for every env other than dev an
\* environment-less file is never a candidate.
C11_Original ==
  /\ C11_Dev
  /\ (C11_IsLoad /\ call.env # EnvDev) =>
       ~(C11_Found /\ ret.configPaths[1] \in {C11_EnvLess(t) : t \in Formats})

\* C11 amended: as stated for env dev; for every env other than dev that is
\* not empty an environment-less file is never a candidate, so a directory
\* holding only config.json fails to load env prod with "config file not
\* found".  (For the empty env the candidates are the environment-less
\* .env.sh, config.json and config.yaml.)
C11_Amended ==
  /\ C11_Dev
  /\ (C11_IsLoad /\ call.env \notin {EnvDev, <<>>}) =>
       ~(C11_Found /\ ret.configPaths[1] \in {C11_EnvLess(t) : t \in Formats})

\* only config.json on disk: env prod is not found
C11_Witness ==
  /\ call.op = "loadConf"
  /\ call.env = EnvProd
  /\ DOMAIN fs = {Tmp \o <<"/", "config", ".", "json">>}
  /\ fs[Tmp \o <<"/", "config", ".", "json">>] # <<>>
  /\ ret.err = ErrConfigFileNotFound

(* ------------------------------------------------------------------ *)
(* Extensions declared by the config itself (SpecSelf)                *)
(* ------------------------------------------------------------------ *)

C12_IsSelf == call.op = "newConf" /\ call.extend = <<>> /\ ~call.merge

\* the value the main store holds for key k
C12_Value(k) == StoreOf(call.appDir).Map[k]

\* the explicit list: filepath.Join(dirValue, name) for each name, in order
C12_List ==
  [i \in 1..Len(SplitComma(C12_Value(KeyPrefixExtensions(call.prefix)))) |->
     Join(C12_Value(KeyExtensionsDir(call.prefix)),
          SplitComma(C12_Value(KeyPrefixExtensions(call.prefix)))[i])]

\* what the caller of newConf gets
C12_Outcome(r) == <<r.configPaths, r.c, r.err>>

\* C12: with no extend list and no merge flag, a main store holding the
\* extensions-list key and the extensions-dir key makes newConf return what
\* the explicit Extend request with the list Join(dirValue, name), for each
\* comma-separated name in order, returns on the same files.
C12_SelfIsExtend ==
  (C12_IsSelf /\ Loads(call.appDir)
     /\ KeyPrefixExtensions(call.prefix) \in KeysOf(call.appDir)
     /\ KeyExtensionsDir(call.prefix) \in KeysOf(call.appDir))
    => /\ C12_Outcome(ret) \in
            {C12_Outcome(r) :
               r \in newConf(call.prefix, call.appDir, call.env, C12_List, FALSE)}
       /\ {C12_Outcome(r) :
             r \in newConf(call.prefix, call.appDir, call.env, <<>>, FALSE)}
          = {C12_Outcome(r) :
               r \in newConf(call.prefix, call.appDir, call.env, C12_List, FALSE)}

\* APP_X=ext1,ext2 with APP_X_DIR=. composed main, ext1 and ext2
C12_Witness ==
  /\ C12_IsSelf
  /\ ret.err = ErrNil
  /\ ret.configPaths = << Tmp \o <<"/", ".", "env">>,
                          Ext1Dir \o <<"/", ".", "env">>,
                          Ext2Dir \o <<"/", ".", "env">> >>
  /\ ret.c.Keys = <<KeyBar, KeyBaz, KeyFoo, KeyPrefixExtensions(Prefix),
                    KeyExtensionsDir(Prefix)>>

\* C13: with no extend list and no merge flag, a main store holding the
\* extensions-list key but not the extensions-dir key makes newConf fail
\* with the missing-key error naming the extensions-dir key, and no
\* extension directory is loaded.
C13_MissingDirKey ==
  (C12_IsSelf /\ Loads(call.appDir)
     /\ KeyPrefixExtensions(call.prefix) \in KeysOf(call.appDir)
     /\ KeyExtensionsDir(call.prefix) \notin KeysOf(call.appDir))
    => /\ ret.err = ErrMissingKey(KeyExtensionsDir(call.prefix))
       /\ ret.loaded = <<call.appDir>>

\* the list names ext1, which has a config, but there is no dir key
C13_Witness ==
  /\ C12_IsSelf
  /\ KeyPrefixExtensions(Prefix) \in KeysOf(Tmp)
  /\ (Ext1Dir \o <<"/", ".", "env">>) \in DOMAIN fs
  /\ ret.err = ErrMissingKey(KeyExtensionsDir(Prefix))

(* ------------------------------------------------------------------ *)
(* Environment enumeration (SpecEnvs)                                 *)
(* ------------------------------------------------------------------ *)

\* the names of the files of the enumerated directory
C14_Names == {SubSeq(p, Len(call.appDir) + 2, Len(p)) :
                p \in {q \in DOMAIN fs :
                         HasPrefix(q, call.appDir \o <<"/">>)}}

\* E starts with a word character and consists of word characters and hyphens
C14_IsEnv(e) ==
  /\ e # <<>>
  /\ IsWord(e[1])
  /\ \A i \in 1..Len(e) : IsWord(e[i]) \/ e[i] = "-"

\* the E of the files <lead>config.E.json of the directory
C14_EnvsOf(lead) ==
  {e \in {SubSeq(n, Len(lead) + 3, Len(n) - 2) : n \in C14_Names} :
     /\ C14_IsEnv(e)
     /\ (lead \o <<"config", ".">> \o e \o <<".", "json">>) \in C14_Names}

C14_Returned == {ret.envs[i] : i \in 1..Len(ret.envs)}

\* C14: getEnvs(dir, false) returns exactly the names E of the files
\* config.E.json of dir and never a name starting with "sample.";
\* getEnvs(dir, true) returns exactly "sample.E" for the files
\* sample.config.E.json of dir; other files are ignored without error.
C14_Original ==
  call.op = "getEnvs" =>
    /\ ret.err = ErrNil
    /\ ~call.samples =>
          /\ C14_Returned = C14_EnvsOf(<<>>)
          /\ \A e \in C14_Returned : ~HasPrefix(e, <<"sample", ".">>)
    /\ call.samples =>
          C14_Returned = {<<"sample", ".">> \o e : e \in C14_EnvsOf(<<"sample", ".">>)}

\* C15: the list getEnvs returns is in strictly ascending byte order
\* (sorted and without duplicates), whatever the files of the directory.
C15_Original ==
  call.op = "getEnvs" =>
    \A i \in 1..(Len(ret.envs) - 1) : strLess(ret.envs[i], ret.envs[i + 1])

(* ------------------------------------------------------------------ *)
(* Path resolution (SpecPath)                                         *)
(* ------------------------------------------------------------------ *)

C16_IsPath(fileTypes) ==
  /\ call.op = "getConfigFilePath"
  /\ call.format \in fileTypes
  /\ call.appDir \in dirs

\* the indexes of env where the marker "sample." starts
C16_Markers(env) ==
  {i \in 1..(Len(env) - 1) : env[i] = "sample" /\ env[i + 1] = "."}

\* env without its first marker
C16_Rest(env) ==
  IF C16_Markers(env) = {} THEN env
  ELSE SubSeq(env, 1, FirstOf(C16_Markers(env)) - 1)
       \o SubSeq(env, FirstOf(C16_Markers(env)) + 2, Len(env))

C16_Lead(env) == IF C16_Markers(env) = {} THEN <<>> ELSE <<"sample", ".">>

\* .env, or [sample.]<env>.env
C16_Name(env) ==
  IF C16_Markers(env) = {} /\ env = <<>> THEN <<".", "env">>
  ELSE C16_Lead(env) \o C16_Rest(env) \o <<".", "env">>

\* C16: for the line-codec type (.env) getConfigFilePath returns the bare
\* name .env when the environment is empty and the file is not a sample,
\* and otherwise a name of the shape [sample.]<env>.env, such as dev.env.
C16_Original ==
  C16_IsPath({<<".", "env">>}) =>
    /\ ret.err = ErrNil
    /\ ret.configPaths = <<Join(call.appDir, C16_Name(TrimSpace(call.env)))>>

\* [sample.]config[.<env>].<ext>
C17_Name(env, ext) ==
  C16_Lead(env) \o <<"config">>
    \o (IF C16_Rest(env) = <<>> THEN <<>> ELSE <<".">> \o C16_Rest(env))
    \o ext

\* C17 as stated: for JSON and YAML the path is
\* root/[sample.]config[.<env>].<ext>, with the sample prefix exactly when
\* the env string contains the marker, which is stripped from the env
\* segment, and without the env segment exactly when what remains is empty.
C17_Original ==
  C16_IsPath({<<".", "json">>, <<".", "yaml">>}) =>
    /\ ret.err = ErrNil
    /\ ret.configPaths = <<Join(call.appDir, C17_Name(call.env, call.format))>>

\* C17, amended: the same, for the env string trimmed of the white space
\* around it.
C17_Amended ==
  C16_IsPath({<<".", "json">>, <<".", "yaml">>}) =>
    /\ ret.err = ErrNil
    /\ ret.configPaths =
         <<Join(call.appDir, C17_Name(TrimSpace(call.env), call.format))>>

\* " sample.dev" resolved to sample.config.dev.yaml
C17_Witness ==
  /\ C16_IsPath({<<".", "yaml">>})
  /\ call.env = <<" ", "sample", ".", "dev">>
  /\ ret.configPaths =
       <<Tmp \o <<"/", "sample", ".", "config", ".", "dev", ".", "yaml">>>>

\* C18: when the directory does not exist, getConfigFilePath fails with
\* the "app dir does not exist" error for every env and file type, and a
\* load of that directory, as the main directory or as an extension
\* directory, reports that error and not "config file not found".
C18_MissingDir ==
  /\ (call.op = "getConfigFilePath" /\ call.appDir \notin dirs)
       => ret.err = ErrAppDirNotExist
  /\ (call.op = "newConf" /\ call.appDir \notin dirs)
       => ret.err = ErrAppDirNotExist /\ ret.loaded = <<call.appDir>>
  /\ (call.op = "newConf" /\ Loads(call.appDir) /\ Len(call.extend) = 1
        /\ (call.appDir \o <<"/">> \o call.extend[1]) \notin dirs)
       => /\ ret.err = ErrAppDirNotExist
          /\ ret.loaded = <<call.appDir, call.appDir \o <<"/">> \o call.extend[1]>>

\* the main directory loaded, the extension directory ext2 is missing
C18_Witness ==
  /\ call.op = "newConf"
  /\ call.appDir = Tmp
  /\ call.extend = <<Ext2>>
  /\ Ext2Dir \notin dirs
  /\ ret.configPaths = <<Tmp \o <<"/", ".", "env">>>>
  /\ ret.err = ErrAppDirNotExist

(* ------------------------------------------------------------------ *)
(* Line codec round trips (SpecCodec)                                 *)
(* ------------------------------------------------------------------ *)

\* C19: for every flat map m whose keys consist of letters, digits and
\* underscores and whose values hold no newline and no double quote,
\* UnmarshalENV(MarshalENV(m)) equals m.
C19_Original ==
  call.op = "MarshalENV" =>
    /\ ret.err = ErrNil
    /\ ret.c.Map = ret.main.Map

\* C20: for every file content f,
\* UnmarshalENV(MarshalENV(UnmarshalENV(f))) equals UnmarshalENV(f).
C20_Original ==
  call.op = "UnmarshalENV" =>
    /\ ret.err = ErrNil
    /\ ret.c.Map = ret.main.Map

\* the value of a trimmed text: the text inside one pair of wrapping double
\* quotes, or the text itself when it is not wrapped
C21_Unwrap(v) ==
  IF Len(v) >= 2 /\ v[1] = "\"" /\ v[Len(v)] = "\""
  THEN SubSeq(v, 2, Len(v) - 1)
  ELSE v

\* the line has the shape KEY = VALUE, eq being the index of its first "="
C21_IsPair(line, eq) ==
  /\ eq # 0
  /\ TrimSpace(SubSeq(line, 1, eq - 1)) # <<>>
  /\ \A i \in 1..Len(TrimSpace(SubSeq(line, 1, eq - 1))) :
        IsWord(TrimSpace(SubSeq(line, 1, eq - 1))[i])
  /\ TrimSpace(SubSeq(line, eq + 1, Len(line))) # <<>>

\* the map after one more line
C21_Put(m, line, eq) ==
  IF C21_IsPair(line, eq)
  THEN MapPut(m, TrimSpace(SubSeq(line, 1, eq - 1)),
              C21_Unwrap(TrimSpace(SubSeq(line, eq + 1, Len(line)))))
  ELSE m

\* the map of the lines of f from index p on, read one line at a time
RECURSIVE C21_Expected(_, _, _)
C21_Expected(f, p, m) ==
  IF p > Len(f) THEN m
  ELSE C21_Expected(f, LineEnd(f, p) + 2,
         C21_Put(m, SubSeq(f, p, LineEnd(f, p)),
                 FirstOf({i \in 1..(LineEnd(f, p) - p + 1) : f[p + i - 1] = "="})))

\* C21: UnmarshalENV strips one leading and one trailing double quote from
\* a value exactly when the trimmed value is wrapped in a pair of double
\* quotes, and removes no other double quote; lines that are not of the
\* shape KEY = VALUE are ignored and parsing does not fail.
C21_Original ==
  call.op = "UnmarshalENV" =>
    ret.main.Map = C21_Expected(call.b, 1, EmptyMap)

(* ------------------------------------------------------------------ *)
(* Updates of one env (Spec)                                          *)
(* ------------------------------------------------------------------ *)

\* the request sets keys: they all start with the prefix, each has a value
C23_IsSet ==
  /\ call.op = "refreshConfigByEnv"
  /\ ~call.del
  /\ Len(call.keys) <= Len(call.values)
  /\ \A i \in 1..Len(call.keys) : HasPrefix(call.keys[i], call.prefix)
  /\ Loads(call.appDir)

\* the loaded entries with each K[i] set to V[i], the last occurrence winning
C23_Expected ==
  [k \in KeysOf(call.appDir) \cup {call.keys[i] : i \in 1..Len(call.keys)} |->
     IF \E i \in 1..Len(call.keys) : call.keys[i] = k
     THEN call.values[LastOf({i \in 1..Len(call.keys) : call.keys[i] = k})]
     ELSE StoreOf(call.appDir).Map[k]]

\* C23: an update of one env with keys K and values V (every key starts
\* with the prefix, every key has a value, no delete) outputs a config in
\* which each K[i] maps to V[i], the last occurrence of a repeated key
\* winning, every other key of the loaded file keeps its value, and no
\* other key is added.
C23_Original ==
  C23_IsSet =>
    /\ ret.err = ErrNil
    /\ ret.c.Map = C23_Expected
    /\ unmarshal(Ext(ret.configPaths[1]), ret.b).m = C23_Expected

(* ------------------------------------------------------------------ *)
(* Failures and limits of the parent search (SpecMerge)               *)
(* ------------------------------------------------------------------ *)

\* the proper ancestors that hold a config file for the env
C26_WithFile ==
  {i \in 1..Len(Ancestors(call.appDir)) :
     loadConf(Ancestors(call.appDir)[i], call.env).err
       \notin {ErrConfigFileNotFound, ErrAppDirNotExist}}

\* the nearest ancestor that holds a config file for the env
C26_Nearest == Ancestors(call.appDir)[FirstOf(C26_WithFile)]

\* C26: when the nearest ancestor that holds a config file for the env
\* holds one that is empty or that cannot be decoded, newMergedConf fails
\* with the error of that load and uses no higher ancestor as parent.
C26_Original ==
  (IsMerge /\ Loads(call.appDir) /\ C26_WithFile # {}
     /\ loadConf(C26_Nearest, call.env).err # ErrNil)
    => ret.err = loadConf(C26_Nearest, call.env).err

\* C27: during Merge the filesystem root, and "." for a relative path, is
\* never loaded as a parent candidate, whatever the depth of the request
\* directory.
C27_Original ==
  (IsMerge /\ Loads(call.appDir) /\ call.appDir \notin {<<"/">>, <<".">>})
    => \A i \in 2..Len(ret.loaded) : ret.loaded[i] \notin {<<"/">>, <<".">>}

(* ------------------------------------------------------------------ *)
(* Determinism and crashes of the composition (Spec)                  *)
(* ------------------------------------------------------------------ *)

\* C28: for a fixed filesystem content and request, newConf has one
\* outcome: the same paths and store, and on failure the same error,
\* including the key a duplicate-key error names.
C28_Original ==
  call.op = "newConf" =>
    Cardinality({C12_Outcome(r) :
                   r \in newConf(call.prefix, call.appDir, call.env,
                                 call.extend, call.merge)}) = 1

\* C29: Extend and Merge end by returning a store or an error, never by a
\* crash, also when the base file decodes to no mapping so that the Map of
\* the store stays nil.
C29_Original ==
  (IsExtend \/ IsMerge) => ret.err # ErrPanicNilMap

(* ------------------------------------------------------------------ *)
(* Properties of the commands (SpecCmd)                               *)
(* ------------------------------------------------------------------ *)

\* Cmd has returned the files of an update of all envs of a kind
C22_IsWild ==
  /\ call.op = "Cmd"
  /\ ret.cmd = CmdUpdateConfig
  /\ call.all \/ call.env \in {<<"*">>, <<"sample", ".", "*">>}

\* the paths of the files <lead>config.E.json of the directory
C22_Json(lead) ==
  {call.appDir \o <<"/">> \o lead \o <<"config", ".">> \o e \o <<".", "json">> :
     e \in C14_EnvsOf(lead)}

C22_Expected ==
  IF call.all THEN C22_Json(<<>>) \cup C22_Json(<<"sample", ".">>)
  ELSE IF call.env = <<"*">> THEN C22_Json(<<>>)
  ELSE C22_Json(<<"sample", ".">>)

\* C22: an update of Env "*", of Env "sample.*" or with All outputs one
\* file per enumerated env, and the paths output are exactly the files
\* config.E.json, sample.config.E.json, or both, of the directory.
C22_Original ==
  C22_IsWild =>
    /\ Len(ret.files) = Cardinality(C22_Expected)
    /\ {ret.files[i].path : i \in 1..Len(ret.files)} = C22_Expected

\* Cmd has returned the output of a comparison
C25_IsCompare == call.op = "Cmd" /\ call.compare # <<>> /\ ret.err = ErrNil

\* the keys of the config resolved for env e
C25_Keys(e) == DOMAIN loadConf(call.appDir, e).c.Map

\* the keys that are in exactly one of the two configs
C25_Difference ==
  (C25_Keys(call.env) \ C25_Keys(call.compare))
  \cup (C25_Keys(call.compare) \ C25_Keys(call.env))

\* the keys of ks, each followed by a newline
RECURSIVE C25_Lines(_)
C25_Lines(ks) ==
  IF ks = <<>> THEN <<>> ELSE ks[1] \o <<"\n">> \o C25_Lines(Tail(ks))

\* C25: compare outputs exactly the keys that are in one of the two
\* resolved configs and not in the other, one per line in ascending
\* order; the exit code is 1 iff a key is listed; exchanging env and
\* compare gives the same output.
C25_Symmetric ==
  C25_IsCompare =>
    /\ ret.cmd = CmdCompare
    /\ ret.b = C25_Lines(sortStrings(C25_Difference))
    /\ (ret.exitCode = 1) <=> (C25_Difference # {})
    /\ ret.exitCode \in {0, 1}
    /\ \A o \in Cmd([call EXCEPT !.env = call.compare, !.compare = call.env]) :
          o.err = ErrNil /\ o.buf = ret.b /\ o.exitCode = ret.exitCode

\* dev has APP_FOO only and prod has APP_BAR only: both keys are listed
C25_Witness ==
  /\ C25_IsCompare
  /\ call.env = EnvDev
  /\ call.compare = EnvProd
  /\ ret.b = KeyBar \o <<"\n">> \o KeyFoo \o <<"\n">>
  /\ ret.exitCode = 1

\* a step of Cmd or of Process that leaves the files and directories alone
C24_DiskUnchanged == fs' = fs /\ dirs' = dirs

\* C24: Cmd itself writes no file; Process writes files only for
\* update-config and generate and only when DryRun is not set, so with
\* DryRun set the filesystem is the same after Cmd followed by Process.
C24_OnlySave ==
  [][/\ (call.op = "none" /\ call'.op = "Cmd") => C24_DiskUnchanged
     /\ (call.op = "Cmd" /\ call'.op = "Process") =>
          \/ C24_DiskUnchanged
          \/ ~call.dryRun /\ ret.cmd \in {CmdUpdateConfig, CmdGenerate}]_vars

\* Process has run a dry update of a file and the file is still as it was
C24_Witness ==
  /\ call.op = "Process"
  /\ call.dryRun
  /\ ret.cmd = CmdUpdateConfig
  /\ Len(ret.files) = 1
  /\ ret.files[1].path \in DOMAIN fs
  /\ fs[ret.files[1].path] # ret.files[1].b

\* Cmd has returned the file of an update of one env with a format override
C30_IsConversion ==
  /\ call.op = "Cmd"
  /\ ret.cmd = CmdUpdateConfig
  /\ ~call.all
  /\ call.env \notin {<<"*">>, <<"sample", ".", "*">>}
  /\ call.format # <<>>

\* the paths the Loader looks at for the env of the request
C30_Candidates ==
  {getConfigFilePaths(call.appDir, call.env).paths[i] :
     i \in 1..Len(getConfigFilePaths(call.appDir, call.env).paths)}

\* C30: whatever the env and the format override (env, sh, json or yaml),
\* the path update-config outputs is one of the paths the Loader looks at
\* for that env.
C30_Original ==
  C30_IsConversion =>
    \A i \in 1..Len(ret.files) : ret.files[i].path \in C30_Candidates
====
